---- MODULE Spec2Model ----
(***************************************************************************)
(* A model of the embedded RFB (VNC) client, gui/vnc_viewer_frame.py:      *)
(* the connect thread, the Tk UI thread with its `after` callbacks, the    *)
(* receive thread, and the update-request budget they share.               *)
(*                                                                         *)
(* Times are in milliseconds, update_request_interval in microseconds      *)
(* (the code multiplies it by 1.5 and by 0.9).  Every thread is a small    *)
(* program counter; a step of one thread is one action, so the threads     *)
(* interleave between the statements that touch shared fields.             *)
(*                                                                         *)
(* Spec is the whole frame.  The other specifications run the same actions *)
(* in a narrower environment: SpecPace (a server that answers, a short     *)
(* horizon), SpecSilent (a server that never answers), SpecRecv (the       *)
(* receive loop with every read outcome), SpecConnect (connect attempts    *)
(* with every outcome of every step), SpecSelect and SpecKey (the          *)
(* security-type selection and the DES key derivation applied to an        *)
(* argument drawn in the initial state), SpecKeyEvent (the packing of a    *)
(* KeyEvent), SpecDisconnect (a session and its disconnect, with the       *)
(* two-second join), SpecDecode, SpecCopy and SpecPresent (the decoding    *)
(* of FramebufferUpdate rectangles into the framebuffer, row by row, and   *)
(* the UI thread that samples it), SpecWrite (the threads that write to    *)
(* the socket), SpecRead (_recv_exact over a stream that arrives in        *)
(* chunks), SpecEmpty (rectangles of every encoding, empty ones among      *)
(* them), SpecColorMap (the SetColorMapEntries handler), SpecPointer (the  *)
(* packing of a PointerEvent from a canvas position), SpecInput (the mouse *)
(* and keyboard handlers of the UI thread in a streaming session),         *)
(* SpecClose (a session the peer closes, with the fairness of the Tk loop  *)
(* and of the receive thread), SpecReconnect (a second session started     *)
(* while the receive thread of the first is still decoding) and SpecTwice  *)
(* (Connect pressed again while an attempt is in progress).                *)
(***************************************************************************)
EXTENDS Integers, Sequences, FiniteSets, TLC

\* ---------------------------------------------------------------- bounds
TickMs == 500
MaxTime == 4000
PaceTime == 1000
StartTime == 1000
MaxAfter == 3
MaxSessions == 2
MaxUpdates == 2
MaxRects == 2

\* ------------------------------------------------------ program constants
SECURITY_NONE == 1
SECURITY_VNC == 2
SECURITY_TIGHT == 16
SECURITY_ULTRA == 17
SECURITY_TLS == 18
SECURITY_VENCRYPT == 19
max_pending_requests == 3
server_response_timeout == 2000
max_protocol_errors == 5
DefaultIntervalUs == 33000
MaxIntervalUs == 1000000

\* auth_var values: "Авто" / "VNC" / "Без пароля"
AUTH_AUTO == "Auto"
AUTH_VNC == "VNC"
AUTH_NONE == "NoPassword"
AuthPreferences == {AUTH_AUTO, AUTH_VNC, AUTH_NONE}

\* quality_var values: "Среднее" / "Высокое" / "Максимум"
Qualities == {"medium", "high", "max"}

SecTypes == {SECURITY_NONE, SECURITY_VNC, SECURITY_TIGHT, SECURITY_ULTRA,
             SECURITY_TLS, SECURITY_VENCRYPT}
NoType == 0

VARIABLES
    now,                        \* time.time(), ms
    connected, socket, stop_threads,
    pending_update_requests, last_update_request_time, update_request_interval,
    last_server_response_time, last_force_update,
    force_update_interval, continuous_update_interval,
    protocol_errors,
    continuous_var, continuous_updates, quality_var, auth_var,
    afterq,                     \* Tk `after` callbacks that have not run yet
    conn,                       \* the connect thread
    rq,                         \* _request_framebuffer_update in progress, per thread
    ui,                         \* the callback the UI thread is running
    rx,                         \* the receive thread
    srv,                        \* the server side of the session
    hist,                       \* what has been observed (history only)
    fin, fout,                  \* argument and result of a function applied on its own
    screen,                     \* screen_width, screen_height, pixel_format (ServerInit)
    framebuffer,                \* the PIL image the receive thread decodes into
    dec,                        \* the receive thread inside _handle_framebuffer_update
    photo,                      \* the image the UI thread last put on the canvas
    dhist,                      \* what the decoder has been observed to do (history only)
    wr,                         \* the threads that write to the socket, each in its send
    out,                        \* what socket.send has put on the wire, call by call
    rd,                         \* a thread inside _recv_exact
    hd,                         \* the receive thread inside _handle_colormap_entries
    inp,                        \* the input handlers of the UI thread and what they wrote
    stream                      \* the bytes of the server: still to arrive, and received

vars == <<now, connected, socket, stop_threads,
          pending_update_requests, last_update_request_time, update_request_interval,
          last_server_response_time, last_force_update,
          force_update_interval, continuous_update_interval, protocol_errors,
          continuous_var, continuous_updates, quality_var, auth_var,
          afterq, conn, rq, ui, rx, srv, hist, fin, fout,
          screen, framebuffer, dec, photo, dhist, wr, out, rd, stream, hd, inp>>

budgetVars == <<pending_update_requests, last_update_request_time,
                update_request_interval, last_server_response_time>>
pureVars == <<fin, fout>>
decodeVars == <<screen, framebuffer, dec, photo, dhist>>
writeVars == <<wr, out>>
readVars == <<rd, stream>>
handlerVars == <<hd, inp>>
sideVars == <<pureVars, decodeVars, writeVars, readVars, handlerVars>>
settingVars == <<force_update_interval, continuous_update_interval,
                 continuous_var, continuous_updates, quality_var, auth_var>>

NoInput == [fn |-> "none"]
NoOutput == [fn |-> "none"]

\* __init__, lines 72-73: no pixel format and no framebuffer before _initialize.
NoScreen == [width |-> 0, height |-> 0, bits_per_pixel |-> 0, big_endian |-> FALSE]
NoImage == <<>>
NoRect == [x |-> 0, y |-> 0, w |-> 0, h |-> 0, encoding |-> -1, src_x |-> 0, src_y |-> 0]
DecIdle ==
    [pc |-> "none",             \* none / loop / rects / payload / paste / failed
     updates |-> 0,             \* FramebufferUpdate messages handled to the end
     left |-> 0,                \* rectangles of this message not yet read
     rect |-> NoRect,           \* the rectangle header read last
     image |-> NoImage,         \* rect_image, the image being pasted
     row |-> 0,                 \* rows of it pasted so far
     consumed |-> 0,            \* bytes _recv_exact returned for the last rectangle
     queued |-> 0]              \* 'update_display' events in update_queue
DHistInit ==
    [pre |-> NoImage,           \* the framebuffer when the header of this rectangle was read
     reference |-> NoImage,     \* the reference decoder's buffer, while it has one
     wellformed |-> TRUE,       \* every rectangle so far lay within the screen
     painted |-> FALSE,         \* a rectangle has been pasted
     overlap_copied |-> FALSE,  \* a CopyRect onto a part of its own source was pasted
     payload |-> <<>>,          \* the Raw payload of the rectangle being pasted
     raw_pasted |-> FALSE]      \* a Raw rectangle smaller than the screen was pasted
\* The writers: the connect thread and the UI thread, no message packed.
Writers == {"conn", "ui"}
WrIdle == [pc |-> "idle", kind |-> "none", sent |-> 0]
WriterInit ==
    /\ wr = [t \in Writers |-> WrIdle]
    /\ out = <<>>

\* No call of _recv_exact in progress, nothing on the wire.
RdIdle ==
    [pc |-> "idle",             \* idle / loop / returned / raised
     size |-> 0,                \* the argument
     data |-> <<>>,             \* data
     remaining |-> 0,           \* remaining
     chunk_size |-> 0,          \* chunk_size
     error |-> "none",          \* the exception raised
     start |-> 0]               \* bytes received from the socket before the call
NoStream == [pending |-> <<>>, received |-> <<>>]
\* No SetColorMapEntries message being handled.
HdIdle ==
    [pc |-> "idle",             \* idle / pad / first / count / colors / done
     num_colors |-> 0,          \* num_colors
     consumed |-> 0]            \* bytes _recv_exact returned after the type byte
\* No input event handled yet; view_only_var is False (line 231) and
\* _last_mouse_move_time is not set (-1).
InpIdle ==
    [handler |-> "none",        \* the handler that ran last
     count |-> 0,               \* handlers run
     events |-> <<>>,           \* PointerEvent and KeyEvent messages written, in order
     releases |-> <<>>,         \* wheel releases scheduled with after(10, ...), not yet run
     last_move |-> -1,          \* _last_mouse_move_time
     last_motion |-> -1,        \* when a motion handler wrote a PointerEvent last
     view_only |-> FALSE]       \* view_only_var
HandlerInit ==
    /\ hd = HdIdle
    /\ inp = InpIdle

ReaderInit ==
    /\ rd = RdIdle
    /\ stream = NoStream

DecoderInit ==
    /\ screen = NoScreen
    /\ framebuffer = NoImage
    /\ dec = DecIdle
    /\ photo = NoImage
    /\ dhist = DHistInit

Max(a, b) == IF a >= b THEN a ELSE b
Min(a, b) == IF a <= b THEN a ELSE b

ReqThreads == {"conn", "ui"}
\* No receive thread yet.  session: the connect attempt that started the
\* thread; old: where the thread of an earlier session is, while it is alive
\* beside the one started after it.
\* No connect thread.  other: where a second connect thread is, one started
\* while this one runs.
ConnIdle == [pc |-> "idle", types |-> {}, selected |-> NoType, other |-> "none"]
RxNone == [pc |-> "none", tmp |-> 0, msg |-> 0, session |-> 0, old |-> "none"]
RqIdle == [pc |-> "idle", cur |-> 0, inc |-> FALSE, tmp |-> 0]
UiNone == [cb |-> "none", cur |-> 0, chain |-> FALSE, stamp |-> FALSE]

HistInit ==
    [steps |-> <<>>,            \* connect steps completed in this attempt
     auth_result |-> "none",    \* what the read of the security result gave
     client_init |-> FALSE,     \* ClientInit was sent in this attempt
     sessions |-> 0,
     wire_any |-> FALSE,        \* a FramebufferUpdateRequest was written, this session
     wire_last |-> 0,           \* when the last one was written
     wire_close |-> FALSE,      \* two were written less than the interval apart
     probed |-> FALSE,          \* a full request was written in this silence
     probe_missed |-> FALSE,    \* ... or was due and was suppressed
     rx_error |-> FALSE,        \* an error was raised in the receive thread
     rx_unknown |-> FALSE,      \* a message of unknown type was read
     rx_after_error |-> FALSE,  \* a message type was read after an error
     rx_after_unknown |-> FALSE,
     suppressed_stalled |-> FALSE,
     rx_partial |-> FALSE,      \* a read timed out inside a message
     rx_misread |-> FALSE,      \* a message type was read after that
     reason |-> "none",         \* the reason string read when no type was offered
     error |-> "none"]          \* str(e) handed to _on_connection_failed

\* _adjust_performance_settings
AdjustedRequestInterval(q) ==
    IF q = "medium" THEN 100000 ELSE IF q = "high" THEN 50000 ELSE 33000
AdjustedForceInterval(q) ==
    IF q = "medium" THEN 1000 ELSE IF q = "high" THEN 500 ELSE 330
AdjustedContinuousInterval(q) ==
    IF q = "medium" THEN 200 ELSE IF q = "high" THEN 150 ELSE 100

\* The frame after __init__ (which ends with _adjust_performance_settings).
ProgramInit ==
    /\ now = StartTime
    /\ connected = FALSE
    /\ socket = "none"
    /\ stop_threads = FALSE
    /\ pending_update_requests = 0
    /\ last_update_request_time = 0
    /\ update_request_interval = AdjustedRequestInterval("medium")
    /\ last_server_response_time = StartTime
    /\ last_force_update = 0
    /\ force_update_interval = AdjustedForceInterval("medium")
    /\ continuous_update_interval = AdjustedContinuousInterval("medium")
    /\ protocol_errors = 0
    /\ continuous_var = FALSE
    /\ continuous_updates = FALSE
    /\ quality_var = "medium"
    /\ auth_var = AUTH_AUTO
    /\ afterq = <<>>
    /\ conn = ConnIdle
    /\ rq = [t \in ReqThreads |-> RqIdle]
    /\ ui = UiNone
    /\ rx = RxNone
    /\ srv = [owed |-> 0, open |-> FALSE]
    /\ hist = HistInit

Init ==
    /\ ProgramInit
    /\ fin = NoInput
    /\ fout = NoOutput
    /\ DecoderInit
    /\ WriterInit
    /\ ReaderInit
    /\ HandlerInit

\* ------------------------------------------- _request_framebuffer_update
\* A request function whose stall adjustment comes before its gates.
RequestCheckAdjustFirst(ivl) ==
    LET adj == IF now - last_server_response_time > server_response_timeout
               THEN Min((ivl * 3) \div 2, MaxIntervalUs) ELSE ivl
    IN IF ~connected \/ socket = "none"
       THEN [go |-> FALSE, ivl |-> ivl, gate |-> "closed"]
       ELSE IF (now - last_update_request_time) * 1000 < ivl
       THEN [go |-> FALSE, ivl |-> adj, gate |-> "throttle"]
       ELSE IF pending_update_requests >= max_pending_requests
       THEN [go |-> FALSE, ivl |-> adj, gate |-> "pending"]
       ELSE [go |-> TRUE, ivl |-> adj, gate |-> "none"]

\* Lines 824-843: the guards evaluated when the function is called with
\* update_request_interval = ivl.  go: the request goes on to the send.
RequestCheck(ivl) ==
    IF ~connected \/ socket = "none"
    THEN [go |-> FALSE, ivl |-> ivl, gate |-> "closed"]
    ELSE IF (now - last_update_request_time) * 1000 < ivl
    THEN [go |-> FALSE, ivl |-> ivl, gate |-> "throttle"]
    ELSE IF pending_update_requests >= max_pending_requests
    THEN [go |-> FALSE, ivl |-> ivl, gate |-> "pending"]
    ELSE [go |-> TRUE,
          ivl |-> IF now - last_server_response_time > server_response_timeout
                  THEN Min((ivl * 3) \div 2, MaxIntervalUs) ELSE ivl,
          gate |-> "none"]

StallThreshold == 3 * 1000
LivenessTimeout == 2 * 1000

\* The call by thread t: sets rq, update_request_interval and hist.
CallRequest(t, inc, ivl) ==
    LET o == RequestCheck(ivl) IN
    /\ rq' = [rq EXCEPT ![t] =
                IF o.go THEN [pc |-> "send", cur |-> now, inc |-> inc, tmp |-> 0]
                ELSE [RqIdle EXCEPT !.pc = "ret"]]
    /\ update_request_interval' = o.ivl
    /\ hist' = [hist EXCEPT
          !.suppressed_stalled =
              @ \/ (o.gate = "pending"
                    /\ now - last_server_response_time > StallThreshold),
          !.probe_missed =
              @ \/ (~inc /\ o.gate \in {"pending", "throttle"} /\ ~hist.probed
                    /\ now - last_server_response_time >= LivenessTimeout)]

\* Lines 845-859: the socket check and socket.send(message).
ReqSend(t) ==
    /\ rq[t].pc = "send"
    /\ IF socket = "open"
       THEN /\ rq' = [rq EXCEPT ![t].pc = "load"]
            /\ srv' = [srv EXCEPT !.owed = Min(@ + 1, max_pending_requests + 2)]
            /\ hist' = [hist EXCEPT
                  !.wire_any = TRUE,
                  !.wire_last = now,
                  !.wire_close = @ \/ (hist.wire_any
                        /\ (now - hist.wire_last) * 1000 < update_request_interval),
                  !.probed = @ \/ (~rq[t].inc
                        /\ now - last_server_response_time >= LivenessTimeout)]
       ELSE /\ rq' = [rq EXCEPT ![t] = [RqIdle EXCEPT !.pc = "ret"]]
            /\ UNCHANGED <<srv, hist>>
    /\ UNCHANGED <<now, connected, socket, stop_threads, budgetVars, last_force_update,
                   settingVars, sideVars, protocol_errors, afterq, conn, ui, rx>>

\* Line 862, self.pending_update_requests += 1: the load ...
ReqLoad(t) ==
    /\ rq[t].pc = "load"
    /\ rq' = [rq EXCEPT ![t].pc = "store", ![t].tmp = pending_update_requests]
    /\ UNCHANGED <<now, connected, socket, stop_threads, budgetVars, last_force_update,
                   settingVars, sideVars, protocol_errors, afterq, conn, ui, rx, srv, hist>>

\* ... and the store.
ReqStore(t) ==
    /\ rq[t].pc = "store"
    /\ pending_update_requests' = rq[t].tmp + 1
    /\ rq' = [rq EXCEPT ![t].pc = "setlast"]
    /\ UNCHANGED <<now, connected, socket, stop_threads, last_update_request_time,
                   update_request_interval, last_server_response_time, last_force_update,
                   settingVars, sideVars, protocol_errors, afterq, conn, ui, rx, srv, hist>>

\* Line 863, self.last_update_request_time = current_time.
ReqSetLast(t) ==
    /\ rq[t].pc = "setlast"
    /\ last_update_request_time' = rq[t].cur
    /\ rq' = [rq EXCEPT ![t] = [RqIdle EXCEPT !.pc = "ret"]]
    /\ UNCHANGED <<now, connected, socket, stop_threads, pending_update_requests,
                   update_request_interval, last_server_response_time, last_force_update,
                   settingVars, sideVars, protocol_errors, afterq, conn, ui, rx, srv, hist>>

\* ------------------------------------------------------- Tk `after` queue
\* self.after(delay, cb); held: its id is the one kept in force_update_timer
\* (cb = "force") or request_update_timer (cb = "cont").
AfterAdd(q, cb, due, held) ==
    Append([i \in DOMAIN q |->
              IF held /\ q[i].cb = cb THEN [q[i] EXCEPT !.held = FALSE] ELSE q[i]],
           [cb |-> cb, due |-> due, held |-> held])

RemoveAt(q, i) == SubSeq(q, 1, i - 1) \o SubSeq(q, i + 1, Len(q))

RECURSIVE Filter(_, _)
Filter(q, cbs) ==
    IF q = <<>> THEN <<>>
    ELSE IF Head(q).held /\ Head(q).cb \in cbs THEN Filter(Tail(q), cbs)
    ELSE <<Head(q)>> \o Filter(Tail(q), cbs)

\* after_cancel(self.force_update_timer); after_cancel(self.request_update_timer)
CancelTimers(q) == Filter(q, {"force", "cont"})

Due == {i \in DOMAIN afterq : afterq[i].due <= now}
NextDue == CHOOSE i \in Due : \A j \in Due :
              \/ afterq[i].due < afterq[j].due
              \/ (afterq[i].due = afterq[j].due /\ i <= j)
DueIs(cb) == Due # {} /\ afterq[NextDue].cb = cb

UiIdle == ui.cb = "none" /\ rq["ui"].pc = "idle"

\* ------------------------------------------------------------------ time
\* A session is in progress: connected, or its threads and callbacks are not done.
SessionActive ==
    \/ connected
    \/ rx.pc \notin {"none", "done"}
    \/ ui.cb # "none"
    \/ afterq # <<>>

\* time.time() advances by TickMs, up to horizon after StartTime, while a
\* session is in progress: between two callbacks of the UI thread, once the
\* callbacks that are due have run, or while it waits in join; and between
\* two messages of the receive thread (blocked in recv), or, while the UI
\* thread waits in join and the socket is closed, during the decoding of a
\* framebuffer update.  The connect thread can be anywhere.
Tick(horizon) ==
    /\ SessionActive
    /\ (UiIdle /\ Due = {}) \/ ui.cb = "disconnect"
    /\ IF ui.cb = "disconnect" THEN rx.pc \in {"none", "fbu_body", "done"}
                               ELSE rx.pc \in {"none", "recv", "done"}
    /\ now + TickMs <= StartTime + horizon
    /\ now' = now + TickMs
    /\ UNCHANGED <<connected, socket, stop_threads, budgetVars, last_force_update,
                   settingVars, sideVars, protocol_errors, afterq, conn, rq, ui, rx, srv, hist>>

\* ----------------------------------------------------- UI thread: timers
\* _schedule_force_update up to the request (lines 414-419), entered with the
\* `after` queue q; chain: called from _start_update_timers.
ForceBegin(q, chain, ivl, fint) ==
    /\ afterq' = q
    /\ IF ~connected
       THEN /\ ui' = UiNone
            /\ rq' = rq
            /\ update_request_interval' = ivl
            /\ hist' = hist
       ELSE IF now - last_force_update >= fint
       THEN /\ ui' = [cb |-> "force", cur |-> now, chain |-> chain, stamp |-> TRUE]
            /\ CallRequest("ui", FALSE, ivl)
       ELSE /\ ui' = [cb |-> "force", cur |-> now, chain |-> chain, stamp |-> FALSE]
            /\ rq' = [rq EXCEPT !["ui"].pc = "ret"]
            /\ update_request_interval' = ivl
            /\ hist' = hist

\* _schedule_continuous_update up to the request (lines 428-432).
ContBegin(q) ==
    /\ afterq' = q
    /\ IF ~connected
       THEN /\ ui' = UiNone
            /\ rq' = rq
            /\ UNCHANGED <<update_request_interval, hist>>
       ELSE IF continuous_var
       THEN /\ ui' = [UiNone EXCEPT !.cb = "cont"]
            /\ CallRequest("ui", TRUE, update_request_interval)
       ELSE /\ ui' = [UiNone EXCEPT !.cb = "cont"]
            /\ rq' = [rq EXCEPT !["ui"].pc = "ret"]
            /\ UNCHANGED <<update_request_interval, hist>>

\* after(0, self._start_update_timers) runs.
UiStartUpdateTimers ==
    /\ UiIdle /\ DueIs("start_timers")
    /\ ForceBegin(RemoveAt(afterq, NextDue), TRUE, update_request_interval,
                  force_update_interval)
    /\ UNCHANGED <<now, connected, socket, stop_threads, pending_update_requests,
                   last_update_request_time, last_server_response_time,
                   last_force_update, settingVars, sideVars, protocol_errors, conn, rx, srv>>

\* The forced-refresh timer fires: _schedule_force_update.
UiScheduleForceUpdate ==
    /\ UiIdle /\ DueIs("force")
    /\ ForceBegin(RemoveAt(afterq, NextDue), FALSE, update_request_interval,
                  force_update_interval)
    /\ UNCHANGED <<now, connected, socket, stop_threads, pending_update_requests,
                   last_update_request_time, last_server_response_time,
                   last_force_update, settingVars, sideVars, protocol_errors, conn, rx, srv>>

\* Lines 420-424: last_force_update, and the timer is armed again.
UiForceRearm ==
    /\ ui.cb = "force" /\ rq["ui"].pc = "ret"
    /\ last_force_update' = IF ui.stamp THEN ui.cur ELSE last_force_update
    /\ afterq' = IF connected
                 THEN AfterAdd(afterq, "force", now + force_update_interval, TRUE)
                 ELSE afterq
    /\ rq' = [rq EXCEPT !["ui"] = RqIdle]
    /\ ui' = IF ui.chain THEN [UiNone EXCEPT !.cb = "cont_begin"] ELSE UiNone
    /\ UNCHANGED <<now, connected, socket, stop_threads, budgetVars, settingVars, sideVars,
                   protocol_errors, conn, rx, srv, hist>>

\* _start_update_timers goes on to _schedule_continuous_update.
UiStartContinuous ==
    /\ ui.cb = "cont_begin" /\ rq["ui"].pc = "idle"
    /\ ContBegin(afterq)
    /\ UNCHANGED <<now, connected, socket, stop_threads, pending_update_requests,
                   last_update_request_time, last_server_response_time,
                   last_force_update, settingVars, sideVars, protocol_errors, conn, rx, srv>>

\* The continuous timer fires: _schedule_continuous_update.
UiScheduleContinuousUpdate ==
    /\ UiIdle /\ DueIs("cont")
    /\ ContBegin(RemoveAt(afterq, NextDue))
    /\ UNCHANGED <<now, connected, socket, stop_threads, pending_update_requests,
                   last_update_request_time, last_server_response_time,
                   last_force_update, settingVars, sideVars, protocol_errors, conn, rx, srv>>

\* Lines 435-436: the continuous timer is armed again.
UiContinuousRearm ==
    /\ ui.cb = "cont" /\ rq["ui"].pc = "ret"
    /\ afterq' = IF connected
                 THEN AfterAdd(afterq, "cont", now + continuous_update_interval, TRUE)
                 ELSE afterq
    /\ rq' = [rq EXCEPT !["ui"] = RqIdle]
    /\ ui' = UiNone
    /\ UNCHANGED <<now, connected, socket, stop_threads, budgetVars, last_force_update,
                   settingVars, sideVars, protocol_errors, conn, rx, srv, hist>>

\* after(100, lambda: ...) of the connect thread and after(10, lambda: ...) of
\* _handle_framebuffer_update: _request_framebuffer_update(incremental=True).
UiRequestLambda ==
    /\ UiIdle /\ DueIs("req_inc")
    /\ afterq' = RemoveAt(afterq, NextDue)
    /\ ui' = [UiNone EXCEPT !.cb = "oneshot"]
    /\ CallRequest("ui", TRUE, update_request_interval)
    /\ UNCHANGED <<now, connected, socket, stop_threads, pending_update_requests,
                   last_update_request_time, last_server_response_time,
                   last_force_update, settingVars, sideVars, protocol_errors, conn, rx, srv>>

\* A callback whose last statement was the request returns.
UiCallbackReturn ==
    /\ ui.cb = "oneshot" /\ rq["ui"].pc = "ret"
    /\ rq' = [rq EXCEPT !["ui"] = RqIdle]
    /\ ui' = UiNone
    /\ UNCHANGED <<now, connected, socket, stop_threads, budgetVars, last_force_update,
                   settingVars, sideVars, protocol_errors, afterq, conn, rx, srv, hist>>

\* ------------------------------------------------- UI thread: user input
InputKinds == {"key_press", "pointer_press", "pointer_release"}

\* _on_key_press -> _send_key_event(down=True), _on_mouse_click ->
\* _send_pointer_event(button_mask=1), _on_mouse_release: the event is written
\* and _request_framebuffer_update(incremental=True) is called.
UserInput(kind) ==
    /\ UiIdle
    /\ connected /\ socket = "open"
    /\ ui' = [UiNone EXCEPT !.cb = "oneshot"]
    /\ CallRequest("ui", TRUE, update_request_interval)
    /\ UNCHANGED <<now, connected, socket, stop_threads, pending_update_requests,
                   last_update_request_time, last_server_response_time,
                   last_force_update, settingVars, sideVars, protocol_errors, afterq, conn, rx, srv>>

\* _on_continuous_change
UserToggleContinuous ==
    /\ UiIdle
    /\ continuous_var' = ~continuous_var
    /\ continuous_updates' = ~continuous_var
    /\ UNCHANGED <<now, connected, socket, stop_threads, budgetVars, last_force_update,
                   force_update_interval, continuous_update_interval, quality_var,
                   auth_var, sideVars, protocol_errors, afterq, conn, rq, ui, rx, srv, hist>>

\* The auth segmented button.
UserSetAuth(a) ==
    /\ UiIdle
    /\ conn.pc = "idle" /\ ~connected
    /\ a # auth_var
    /\ auth_var' = a
    /\ UNCHANGED <<now, connected, socket, stop_threads, budgetVars, last_force_update,
                   force_update_interval, continuous_update_interval, quality_var,
                   continuous_var, continuous_updates, sideVars, protocol_errors, afterq,
                   conn, rq, ui, rx, srv, hist>>

\* _on_quality_change: _adjust_performance_settings, then, when connected, the
\* timers held in force_update_timer / request_update_timer are cancelled and
\* _start_update_timers is called.
UserQualityChange(q) ==
    /\ UiIdle
    /\ q # quality_var
    /\ quality_var' = q
    /\ force_update_interval' = AdjustedForceInterval(q)
    /\ continuous_update_interval' = AdjustedContinuousInterval(q)
    /\ IF connected
       THEN ForceBegin(CancelTimers(afterq), TRUE, AdjustedRequestInterval(q),
                       AdjustedForceInterval(q))
       ELSE /\ update_request_interval' = AdjustedRequestInterval(q)
            /\ UNCHANGED <<afterq, ui, rq, hist>>
    /\ UNCHANGED <<now, connected, socket, stop_threads, pending_update_requests,
                   last_update_request_time, last_server_response_time,
                   last_force_update, continuous_var, continuous_updates, auth_var,
                   sideVars, protocol_errors, conn, rx, srv>>

\* ------------------------------------------------------- connect thread
\* _authenticate, lines 549-571: the security type selected for auth
\* preference pref among the offered types; NoType: none (selected_type is None).
SelectSecurityType(pref, offered) ==
    IF pref = AUTH_NONE /\ SECURITY_NONE \in offered THEN SECURITY_NONE
    ELSE IF pref = AUTH_VNC /\ SECURITY_VNC \in offered THEN SECURITY_VNC
    ELSE IF SECURITY_VNC \in offered THEN SECURITY_VNC
    ELSE IF SECURITY_NONE \in offered THEN SECURITY_NONE
    ELSE IF SECURITY_ULTRA \in offered
    THEN (IF pref = AUTH_AUTO THEN NoType ELSE SECURITY_ULTRA)
    ELSE NoType

\* The messages of the exceptions _connect_thread raises (lines 484, 488,
\* 492) and, for a failed connect(), the text of the OSError.
ErrSocket == "OSError"
ErrHandshake == "Oshibka handshake"
ErrAuthenticate == "Oshibka autentifikatsii"
ErrInitialize == "Oshibka initsializatsii"

\* The reason strings a server sends with an empty list of security types.
ServerReasons == {"Too many security failures", "Unsupported protocol version"}

\* What the read of the 4-byte security result can give.
AuthResults == {"zero", "nonzero", "timeout", "closed"}

\* _auth_none, _auth_vnc, _auth_ultravnc: the value returned for result res.
AuthNone(res) == res = "zero"
AuthVnc(res) == res = "zero"
AuthUltraVnc(res) == res \in {"zero", "timeout"}
AuthReturns(selected, res) ==
    IF selected = SECURITY_NONE THEN AuthNone(res)
    ELSE IF selected = SECURITY_VNC THEN AuthVnc(res)
    ELSE IF selected = SECURITY_ULTRA THEN AuthUltraVnc(res)
    ELSE FALSE

ConnUnchanged == UNCHANGED <<now, connected, stop_threads, budgetVars, last_force_update,
                             settingVars, sideVars, protocol_errors, afterq, rq, ui, rx>>

\* connect_to_vnc: the connect thread is started.
UserConnect ==
    /\ UiIdle
    /\ conn.pc = "idle" /\ ~connected
    /\ hist.sessions < MaxSessions
    /\ conn' = [ConnIdle EXCEPT !.pc = "socket", !.other = conn.other]
    /\ hist' = [hist EXCEPT !.steps = <<>>, !.auth_result = "none",
                            !.client_init = FALSE, !.sessions = @ + 1,
                            !.reason = "none", !.error = "none"]
    /\ UNCHANGED <<socket, srv>>
    /\ ConnUnchanged

\* Where the connect thread is between its first statement and connected = True.
Connecting == {"socket", "handshake", "security", "auth", "init", "set_connected"}

\* connect_to_vnc (lines 445-467) called again while a connect thread runs:
\* the button stays enabled until _on_connected, and the function starts a
\* thread whatever the state of the frame.
UserConnectAgain ==
    /\ UiIdle
    /\ conn.pc \in Connecting /\ conn.other = "none"
    /\ conn' = [conn EXCEPT !.other = "socket"]
    /\ UNCHANGED <<socket, srv, hist>>
    /\ ConnUnchanged

\* Lines 475-480 in the second thread: self.socket is assigned a new socket.
Conn2OpenSocket ==
    /\ conn.other = "socket"
    /\ socket' = "open"
    /\ srv' = [owed |-> 0, open |-> TRUE]
    /\ conn' = [conn EXCEPT !.other = "handshake"]
    /\ UNCHANGED hist
    /\ ConnUnchanged

\* _handshake in the second thread: 12 bytes are read from self.socket and
\* the version is sent on it.  The second thread is followed no further: its
\* later steps are the statements of the first.
Conn2Handshake ==
    /\ conn.other = "handshake"
    /\ conn' = [conn EXCEPT !.other = "none"]
    /\ UNCHANGED <<socket, srv, hist>>
    /\ ConnUnchanged

\* Lines 475-480: socket.socket(...), connect.
ConnOpenSocket(ok) ==
    /\ conn.pc = "socket"
    /\ socket' = "open"
    /\ srv' = [owed |-> 0, open |-> ok]
    /\ conn' = [conn EXCEPT !.pc = IF ok THEN "handshake" ELSE "failed"]
    /\ hist' = IF ok THEN hist ELSE [hist EXCEPT !.error = ErrSocket]
    /\ ConnUnchanged

\* _handshake: 12 bytes are read, RFB 003.008 is sent.
ConnHandshake(ok) ==
    /\ conn.pc = "handshake"
    /\ conn' = [conn EXCEPT !.pc = IF ok THEN "security" ELSE "failed"]
    /\ hist' = IF ok THEN [hist EXCEPT !.steps = Append(@, "version")]
               ELSE [hist EXCEPT !.error = ErrHandshake]
    /\ UNCHANGED <<socket, srv>>
    /\ ConnUnchanged

\* _authenticate, lines 534-574: the offered types are read (none offered:
\* the reason is read), one is selected and sent.
ConnSecurity(offered) ==
    /\ conn.pc = "security"
    /\ LET sel == SelectSecurityType(auth_var, offered) IN
       /\ conn' = [pc |-> IF sel = NoType THEN "failed" ELSE "auth",
                   types |-> IF sel = NoType THEN {} ELSE offered, selected |-> sel,
                   other |-> conn.other]
       /\ \E reason \in ServerReasons :
            hist' = IF offered = {}
                    THEN [hist EXCEPT !.reason = reason, !.error = ErrAuthenticate]
                    ELSE IF sel = NoType THEN [hist EXCEPT !.error = ErrAuthenticate]
                    ELSE [hist EXCEPT !.steps = Append(@, "security")]
    /\ UNCHANGED <<socket, srv>>
    /\ ConnUnchanged

\* _auth_none / _auth_vnc / _auth_ultravnc: pre: the reads before the result
\* succeeded; res: what the read of the result gave.
ConnAuth(pre, res) ==
    /\ conn.pc = "auth"
    /\ LET ok == pre /\ AuthReturns(conn.selected, res) IN
       /\ conn' = [pc |-> IF ok THEN "init" ELSE "failed",
                   types |-> {}, selected |-> NoType, other |-> conn.other]
       /\ hist' = [hist EXCEPT
                     !.auth_result = IF pre THEN res ELSE "none",
                     !.steps = IF ok THEN Append(@, "auth") ELSE @,
                     !.error = IF ok THEN @ ELSE ErrAuthenticate]
    /\ UNCHANGED <<socket, srv>>
    /\ ConnUnchanged

\* _initialize: ClientInit is sent, ServerInit is read, SetEncodings is sent.
ConnInitialize(ok) ==
    /\ conn.pc = "init"
    /\ conn' = [conn EXCEPT !.pc = IF ok THEN "set_connected" ELSE "failed"]
    /\ hist' = [hist EXCEPT !.client_init = TRUE,
                            !.steps = IF ok THEN Append(@, "init") ELSE @,
                            !.error = IF ok THEN @ ELSE ErrInitialize]
    /\ UNCHANGED <<socket, srv>>
    /\ ConnUnchanged

\* Line 494: self.connected = True.
ConnSetConnected ==
    /\ conn.pc = "set_connected"
    /\ connected' = TRUE
    /\ conn' = [conn EXCEPT !.pc = "start_rx"]
    /\ hist' = [hist EXCEPT !.wire_any = FALSE, !.wire_last = 0, !.wire_close = FALSE,
                            !.probed = FALSE, !.probe_missed = FALSE,
                            !.rx_error = FALSE, !.rx_unknown = FALSE,
                            !.rx_after_error = FALSE, !.rx_after_unknown = FALSE,
                            !.rx_partial = FALSE, !.rx_misread = FALSE,
                            !.suppressed_stalled = FALSE]
    /\ UNCHANGED <<now, socket, stop_threads, budgetVars, last_force_update, settingVars, sideVars,
                   protocol_errors, afterq, rq, ui, rx, srv>>

\* Line 501: _start_receiver_thread.
ConnStartReceiver ==
    /\ conn.pc = "start_rx"
    /\ rx.pc \in {"none", "done"}
    /\ stop_threads' = FALSE
    /\ rx' = [RxNone EXCEPT !.pc = "loop", !.session = hist.sessions, !.old = rx.old]
    /\ conn' = [conn EXCEPT !.pc = "sched"]
    /\ UNCHANGED <<now, connected, socket, budgetVars, last_force_update, settingVars, sideVars,
                   protocol_errors, afterq, rq, ui, srv, hist>>

\* Line 501, _start_receiver_thread while the thread of the session before
\* is still alive (it outlived the join of disconnect_from_vnc): the stop
\* flag is cleared and a second thread is started; nothing ends the first.
ConnStartReceiverBeside ==
    /\ conn.pc = "start_rx"
    /\ rx.pc \notin {"none", "done"} /\ rx.old = "none"
    /\ stop_threads' = FALSE
    /\ rx' = [RxNone EXCEPT !.pc = "loop", !.session = hist.sessions, !.old = rx.pc]
    /\ conn' = [conn EXCEPT !.pc = "sched"]
    /\ UNCHANGED <<now, connected, socket, budgetVars, last_force_update, settingVars, sideVars,
                   protocol_errors, afterq, rq, ui, srv, hist>>

\* Line 504: self.after(0, self._start_update_timers).
ConnScheduleTimers ==
    /\ conn.pc = "sched"
    /\ afterq' = AfterAdd(afterq, "start_timers", now, FALSE)
    /\ conn' = [conn EXCEPT !.pc = "request"]
    /\ UNCHANGED <<now, connected, socket, stop_threads, budgetVars, last_force_update,
                   settingVars, sideVars, protocol_errors, rq, ui, rx, srv, hist>>

\* Line 507: self._request_framebuffer_update(incremental=False).
ConnRequest ==
    /\ conn.pc = "request"
    /\ CallRequest("conn", FALSE, update_request_interval)
    /\ conn' = [conn EXCEPT !.pc = "in_request"]
    /\ UNCHANGED <<now, connected, socket, stop_threads, pending_update_requests,
                   last_update_request_time, last_server_response_time,
                   last_force_update, settingVars, sideVars, protocol_errors, afterq, ui, rx, srv>>

\* Line 508: self.after(100, lambda: ...), and the thread ends.
ConnAfter100 ==
    /\ conn.pc = "in_request" /\ rq["conn"].pc = "ret"
    /\ afterq' = AfterAdd(afterq, "req_inc", now + 100, FALSE)
    /\ rq' = [rq EXCEPT !["conn"] = RqIdle]
    /\ conn' = [conn EXCEPT !.pc = "idle"]
    /\ UNCHANGED <<now, connected, socket, stop_threads, budgetVars, last_force_update,
                   settingVars, sideVars, protocol_errors, ui, rx, srv, hist>>

\* Lines 510-513: the except branch; the thread ends.
ConnFailed ==
    /\ conn.pc = "failed"
    /\ conn' = [conn EXCEPT !.pc = "idle"]
    /\ UNCHANGED <<socket, srv, hist>>
    /\ ConnUnchanged

\* ------------------------------------------------------------ disconnect
\* disconnect_from_vnc, lines 1447-1472: the flags, the timers, the socket;
\* then the UI thread joins the receive thread (at most 2 s).
DisconnectBegin(q) ==
    /\ connected' = FALSE
    /\ stop_threads' = TRUE
    /\ afterq' = CancelTimers(q)
    /\ socket' = "none"
    /\ ui' = [UiNone EXCEPT !.cb = "disconnect", !.cur = now]
    /\ UNCHANGED <<now, budgetVars, last_force_update, settingVars, sideVars, protocol_errors,
                   conn, rq, rx, srv, hist>>

JoinTimeout == 2 * 1000

\* The disconnect button.
UserDisconnect ==
    /\ UiIdle
    /\ connected
    /\ DisconnectBegin(afterq)

\* after(0, self.disconnect_from_vnc), scheduled by the receive thread, runs.
UiScheduledDisconnect ==
    /\ UiIdle /\ DueIs("disconnect")
    /\ DisconnectBegin(RemoveAt(afterq, NextDue))

\* Lines 1474-1503: the join is over; the counters are reset.
UiDisconnectFinish ==
    /\ ui.cb = "disconnect"
    /\ rx.pc \in {"none", "done"} \/ now >= ui.cur + JoinTimeout
    /\ last_force_update' = 0
    /\ protocol_errors' = 0
    /\ pending_update_requests' = 0
    /\ last_server_response_time' = now
    /\ update_request_interval' = DefaultIntervalUs
    /\ ui' = UiNone
    /\ UNCHANGED <<now, connected, socket, stop_threads, last_update_request_time,
                   settingVars, sideVars, afterq, conn, rq, rx, srv, hist>>

\* -------------------------------------------------------- receive thread
FRAMEBUFFER_UPDATE == 0
SET_COLOR_MAP_ENTRIES == 1
BELL == 2
SERVER_CUT_TEXT == 3
UltraExtension == 255
OtherUnknown == 7
ServerMsgTypes == {FRAMEBUFFER_UPDATE, SET_COLOR_MAP_ENTRIES, BELL, SERVER_CUT_TEXT,
                   UltraExtension, OtherUnknown}
KnownMsgTypes == {FRAMEBUFFER_UPDATE, SET_COLOR_MAP_ENTRIES, BELL, SERVER_CUT_TEXT}

RxUnchanged == UNCHANGED <<now, socket, stop_threads, last_update_request_time,
                           last_force_update, settingVars, sideVars, conn, rq, ui>>

\* Lines 891-896: the loop condition and the socket check.
RxLoopTest ==
    /\ rx.pc = "loop"
    /\ rx' = [rx EXCEPT !.pc = IF connected /\ ~stop_threads /\ socket = "open"
                                THEN "recv" ELSE "exit"]
    /\ UNCHANGED <<connected, pending_update_requests, update_request_interval,
                   last_server_response_time, protocol_errors, afterq, srv, hist>>
    /\ RxUnchanged

\* Where the loop goes after the type byte m (lines 907-957): into a handler,
\* or, for an unknown type, back to the top of the loop.
Dispatch(m) ==
    IF m = FRAMEBUFFER_UPDATE THEN "fbu_stamp"
    ELSE IF m \in {SET_COLOR_MAP_ENTRIES, SERVER_CUT_TEXT} THEN "body"
    ELSE "loop"

\* Lines 899-905: socket.recv(1) returns the type byte of a server message.
RxRecvMessage(m) ==
    /\ rx.pc = "recv"
    /\ socket = "open" /\ srv.open
    /\ m = FRAMEBUFFER_UPDATE => srv.owed > 0
    /\ srv' = IF m = FRAMEBUFFER_UPDATE THEN [srv EXCEPT !.owed = @ - 1] ELSE srv
    /\ rx' = [rx EXCEPT !.pc = Dispatch(m), !.msg = m]
    /\ hist' = [hist EXCEPT !.rx_unknown = @ \/ m \notin KnownMsgTypes,
                            !.rx_after_error = @ \/ hist.rx_error,
                            !.rx_misread = @ \/ hist.rx_partial,
                            !.rx_after_unknown = @ \/ hist.rx_unknown]
    /\ UNCHANGED <<connected, pending_update_requests, update_request_interval,
                   last_server_response_time, protocol_errors, afterq>>
    /\ RxUnchanged

\* socket.recv(1) returns b'': the server closed the connection.
RxRecvClosed ==
    /\ rx.pc = "recv"
    /\ socket = "open"
    /\ srv' = [srv EXCEPT !.open = FALSE]
    /\ rx' = [rx EXCEPT !.pc = "exit"]
    /\ UNCHANGED <<connected, pending_update_requests, update_request_interval,
                   last_server_response_time, protocol_errors, afterq, hist>>
    /\ RxUnchanged

\* socket.recv(1) raises socket.timeout between two messages: continue.
RxRecvTimeout ==
    /\ rx.pc = "recv"
    /\ socket = "open" /\ srv.open
    /\ rx' = [rx EXCEPT !.pc = "loop"]
    /\ UNCHANGED <<connected, pending_update_requests, update_request_interval,
                   last_server_response_time, protocol_errors, afterq, srv, hist>>
    /\ RxUnchanged

\* socket.recv(1) on the socket disconnect_from_vnc closed: OSError, break.
RxRecvOSError ==
    /\ rx.pc = "recv"
    /\ socket # "open"
    /\ rx' = [rx EXCEPT !.pc = "exit"]
    /\ UNCHANGED <<connected, pending_update_requests, update_request_interval,
                   last_server_response_time, protocol_errors, afterq, srv, hist>>
    /\ RxUnchanged

\* _handle_framebuffer_update, line 1032.
RxFbuStamp ==
    /\ rx.pc = "fbu_stamp"
    /\ last_server_response_time' = now
    /\ rx' = [rx EXCEPT !.pc = "fbu_load"]
    /\ hist' = [hist EXCEPT !.probed = FALSE]
    /\ UNCHANGED <<connected, pending_update_requests, update_request_interval,
                   protocol_errors, afterq, srv>>
    /\ RxUnchanged

\* Line 1033, max(0, self.pending_update_requests - 1): the load ...
RxFbuLoad ==
    /\ rx.pc = "fbu_load"
    /\ rx' = [rx EXCEPT !.pc = "fbu_store", !.tmp = pending_update_requests]
    /\ UNCHANGED <<connected, pending_update_requests, update_request_interval,
                   last_server_response_time, protocol_errors, afterq, srv, hist>>
    /\ RxUnchanged

\* ... and the store.
RxFbuStore ==
    /\ rx.pc = "fbu_store"
    /\ pending_update_requests' = Max(0, rx.tmp - 1)
    /\ rx' = [rx EXCEPT !.pc = "fbu_decay", !.tmp = 0]
    /\ UNCHANGED <<connected, update_request_interval, last_server_response_time,
                   protocol_errors, afterq, srv, hist>>
    /\ RxUnchanged

\* Lines 1036-1038: the interval goes back towards 0.033.
RxFbuDecay ==
    /\ rx.pc = "fbu_decay"
    /\ update_request_interval' =
          IF update_request_interval > DefaultIntervalUs
          THEN Max((update_request_interval * 9) \div 10, DefaultIntervalUs)
          ELSE update_request_interval
    /\ rx' = [rx EXCEPT !.pc = "fbu_body"]
    /\ UNCHANGED <<connected, pending_update_requests, last_server_response_time,
                   protocol_errors, afterq, srv, hist>>
    /\ RxUnchanged

ReadOutcomes == {"ok", "timeout", "closed", "decode"}

\* Lines 1041-1083 and 908-922: the rest of the FramebufferUpdate is read and
\* decoded; an exception is counted, and below max_protocol_errors the loop
\* continues.
RxFbuBody(outcome) ==
    /\ rx.pc = "fbu_body"
    /\ outcome = "ok" => socket = "open" /\ srv.open
    /\ outcome = "ok" /\ continuous_updates => Len(afterq) < MaxAfter
    /\ IF outcome = "ok"
       THEN /\ protocol_errors' = 0
            /\ afterq' = IF continuous_updates
                         THEN AfterAdd(afterq, "req_inc", now + 10, FALSE)
                         ELSE afterq
            /\ rx' = [rx EXCEPT !.pc = "loop"]
            /\ UNCHANGED <<srv, hist>>
       ELSE /\ protocol_errors' = protocol_errors + 1
            /\ rx' = [rx EXCEPT !.pc = IF protocol_errors + 1 >= max_protocol_errors
                                        THEN "exit" ELSE "loop"]
            /\ srv' = IF outcome = "closed" THEN [srv EXCEPT !.open = FALSE] ELSE srv
            /\ hist' = [hist EXCEPT !.rx_error = TRUE,
                                    !.rx_partial = @ \/ outcome = "timeout"]
            /\ UNCHANGED afterq
    /\ UNCHANGED <<connected, pending_update_requests, update_request_interval,
                   last_server_response_time>>
    /\ RxUnchanged

\* _handle_colormap_entries / _handle_server_cut_text and lines 959-978:
\* socket.timeout and any other exception continue the loop, ConnectionError
\* leaves it.
RxMsgBody(outcome) ==
    /\ rx.pc = "body"
    /\ outcome = "ok" => socket = "open" /\ srv.open
    /\ rx' = [rx EXCEPT !.pc = IF outcome = "closed" THEN "exit" ELSE "loop"]
    /\ srv' = IF outcome = "closed" THEN [srv EXCEPT !.open = FALSE] ELSE srv
    /\ hist' = [hist EXCEPT !.rx_error = @ \/ outcome # "ok",
                            !.rx_partial = @ \/ outcome = "timeout"]
    /\ UNCHANGED <<connected, pending_update_requests, update_request_interval,
                   last_server_response_time, protocol_errors, afterq>>
    /\ RxUnchanged

\* A receive thread that ends without a word to the UI thread.
RxExitSilent ==
    /\ rx.pc = "exit"
    /\ rx' = [rx EXCEPT !.pc = "done"]
    /\ UNCHANGED <<connected, pending_update_requests, update_request_interval,
                   last_server_response_time, protocol_errors, afterq, srv, hist>>
    /\ RxUnchanged

\* Lines 980-982: after the loop.
RxExit ==
    /\ rx.pc = "exit"
    /\ connected' = FALSE
    /\ afterq' = AfterAdd(afterq, "disconnect", now, FALSE)
    /\ rx' = [rx EXCEPT !.pc = "done"]
    /\ UNCHANGED <<pending_update_requests, update_request_interval,
                   last_server_response_time, protocol_errors, srv, hist>>
    /\ RxUnchanged

\* ------------------------------------- the receive thread of the session before
\* The same _receive_loop, run by the thread that was alive when the next one
\* was started.  It was inside _handle_framebuffer_update; that call returns
\* (lines 908-911).
OldRxFbuBody ==
    /\ rx.old = "fbu_body"
    /\ rx' = [rx EXCEPT !.old = "loop"]
    /\ protocol_errors' = 0
    /\ UNCHANGED <<connected, pending_update_requests, update_request_interval,
                   last_server_response_time, afterq, srv, hist>>
    /\ RxUnchanged

\* Lines 891-896: the loop condition and the socket check.
OldRxLoopTest ==
    /\ rx.old = "loop"
    /\ rx' = [rx EXCEPT !.old = IF connected /\ ~stop_threads /\ socket = "open"
                                 THEN "recv" ELSE "exit"]
    /\ UNCHANGED <<connected, pending_update_requests, update_request_interval,
                   last_server_response_time, protocol_errors, afterq, srv, hist>>
    /\ RxUnchanged

\* Lines 899-905 and 959-961: self.socket.recv(1) on the socket of the
\* session in progress times out, and the loop continues.
OldRxRecvTimeout ==
    /\ rx.old = "recv"
    /\ socket = "open" /\ srv.open
    /\ rx' = [rx EXCEPT !.old = "loop"]
    /\ UNCHANGED <<connected, pending_update_requests, update_request_interval,
                   last_server_response_time, protocol_errors, afterq, srv, hist>>
    /\ RxUnchanged

\* The socket was closed meanwhile: OSError, break.
OldRxRecvOSError ==
    /\ rx.old = "recv"
    /\ socket # "open"
    /\ rx' = [rx EXCEPT !.old = "exit"]
    /\ UNCHANGED <<connected, pending_update_requests, update_request_interval,
                   last_server_response_time, protocol_errors, afterq, srv, hist>>
    /\ RxUnchanged

\* Lines 980-982: after the loop.
OldRxExit ==
    /\ rx.old = "exit"
    /\ connected' = FALSE
    /\ afterq' = AfterAdd(afterq, "disconnect", now, FALSE)
    /\ rx' = [rx EXCEPT !.old = "none"]
    /\ UNCHANGED <<pending_update_requests, update_request_interval,
                   last_server_response_time, protocol_errors, srv, hist>>
    /\ RxUnchanged

OldReceiveSteps ==
    \/ OldRxFbuBody
    \/ OldRxLoopTest
    \/ OldRxRecvTimeout
    \/ OldRxRecvOSError
    \/ OldRxExit

\* ---------------------------------------------------------- specification
Next ==
    \/ Tick(MaxTime)
    \/ \E t \in ReqThreads : ReqSend(t)
    \/ \E t \in ReqThreads : ReqLoad(t)
    \/ \E t \in ReqThreads : ReqStore(t)
    \/ \E t \in ReqThreads : ReqSetLast(t)
    \/ UiStartUpdateTimers
    \/ UiScheduleForceUpdate
    \/ UiForceRearm
    \/ UiStartContinuous
    \/ UiScheduleContinuousUpdate
    \/ UiContinuousRearm
    \/ UiRequestLambda
    \/ UiCallbackReturn
    \/ \E kind \in InputKinds : UserInput(kind)
    \/ UserToggleContinuous
    \/ \E a \in AuthPreferences : UserSetAuth(a)
    \/ \E q \in Qualities : UserQualityChange(q)
    \/ UserConnect
    \/ \E ok \in BOOLEAN : ConnOpenSocket(ok)
    \/ \E ok \in BOOLEAN : ConnHandshake(ok)
    \/ \E offered \in SUBSET SecTypes : ConnSecurity(offered)
    \/ \E pre \in BOOLEAN, res \in AuthResults : ConnAuth(pre, res)
    \/ \E ok \in BOOLEAN : ConnInitialize(ok)
    \/ ConnSetConnected
    \/ ConnStartReceiver
    \/ ConnScheduleTimers
    \/ ConnRequest
    \/ ConnAfter100
    \/ ConnFailed
    \/ UserDisconnect
    \/ UiScheduledDisconnect
    \/ UiDisconnectFinish
    \/ RxLoopTest
    \/ \E m \in ServerMsgTypes : RxRecvMessage(m)
    \/ RxRecvClosed
    \/ RxRecvTimeout
    \/ RxRecvOSError
    \/ RxFbuStamp
    \/ RxFbuLoad
    \/ RxFbuStore
    \/ RxFbuDecay
    \/ \E outcome \in ReadOutcomes : RxFbuBody(outcome)
    \/ \E outcome \in ReadOutcomes : RxMsgBody(outcome)
    \/ RxExit

Spec == Init /\ [][Next]_vars

\* ------------------------------------------------ the request budget
\* The clock advances once the connect thread has ended.
TickAfterConnect(horizon) == conn.pc = "idle" /\ Tick(horizon)

\* A connect attempt in which every step succeeds.
ConnectOk ==
    \/ UserConnect
    \/ ConnOpenSocket(TRUE)
    \/ ConnHandshake(TRUE)
    \/ ConnSecurity({SECURITY_VNC})
    \/ ConnAuth(TRUE, "zero")
    \/ ConnInitialize(TRUE)
    \/ ConnSetConnected
    \/ ConnStartReceiver
    \/ ConnScheduleTimers
    \/ ConnRequest
    \/ ConnAfter100

RequestSteps ==
    \/ \E t \in ReqThreads : ReqSend(t)
    \/ \E t \in ReqThreads : ReqLoad(t)
    \/ \E t \in ReqThreads : ReqStore(t)
    \/ \E t \in ReqThreads : ReqSetLast(t)

\* _start_update_timers, run by after(0, ...) when the session starts.
TimerStartSteps ==
    \/ UiStartUpdateTimers
    \/ UiForceRearm
    \/ UiStartContinuous
    \/ UiContinuousRearm

TimerSteps ==
    \/ TimerStartSteps
    \/ UiScheduleForceUpdate
    \/ UiScheduleContinuousUpdate
    \/ UiRequestLambda
    \/ UiCallbackReturn

UpdateSteps ==
    \/ RxLoopTest
    \/ RxRecvMessage(FRAMEBUFFER_UPDATE)
    \/ RxFbuStamp
    \/ RxFbuLoad
    \/ RxFbuStore
    \/ RxFbuDecay
    \/ RxFbuBody("ok")

SilentSteps ==
    \/ RxLoopTest
    \/ RxRecvTimeout

NextPace ==
    \/ Tick(PaceTime)
    \/ ConnectOk
    \/ RequestSteps
    \/ TimerSteps
    \/ \E kind \in InputKinds : UserInput(kind)
    \/ (conn.pc = "idle" /\ ~connected /\ hist.sessions = 0 /\ UserToggleContinuous)
    \/ UpdateSteps

SpecPace == Init /\ [][NextPace]_vars

NextSilent ==
    \/ TickAfterConnect(MaxTime)
    \/ ConnectOk
    \/ RequestSteps
    \/ TimerSteps
    \/ \E kind \in InputKinds : UserInput(kind)
    \/ UserToggleContinuous
    \/ \E q \in Qualities : UserQualityChange(q)
    \/ SilentSteps

SpecSilent == Init /\ [][NextSilent]_vars

\* ------------------------------------------------------ connect attempts
ConnectSteps ==
    \/ UserConnect
    \/ \E ok \in BOOLEAN : ConnOpenSocket(ok)
    \/ \E ok \in BOOLEAN : ConnHandshake(ok)
    \/ \E offered \in SUBSET SecTypes : ConnSecurity(offered)
    \/ \E pre \in BOOLEAN, res \in AuthResults : ConnAuth(pre, res)
    \/ \E ok \in BOOLEAN : ConnInitialize(ok)
    \/ ConnSetConnected
    \/ ConnStartReceiver
    \/ ConnScheduleTimers
    \/ ConnRequest
    \/ ConnAfter100
    \/ ConnFailed

NextConnect ==
    \/ \E a \in AuthPreferences : UserSetAuth(a)
    \/ ConnectSteps
    \/ RequestSteps

SpecConnect == Init /\ [][NextConnect]_vars

\* Connect attempts with every outcome, and the user pressing Connect again
\* while one is in progress.
NextTwice ==
    \/ NextConnect
    \/ UserConnectAgain
    \/ Conn2OpenSocket
    \/ Conn2Handshake

SpecTwice == Init /\ [][NextTwice]_vars

\* ------------------------------------------------------ the receive loop
ReceiveSteps ==
    \/ RxLoopTest
    \/ \E m \in ServerMsgTypes : RxRecvMessage(m)
    \/ RxRecvClosed
    \/ RxRecvTimeout
    \/ RxRecvOSError
    \/ RxFbuStamp
    \/ RxFbuLoad
    \/ RxFbuStore
    \/ RxFbuDecay
    \/ \E outcome \in ReadOutcomes : RxFbuBody(outcome)
    \/ \E outcome \in ReadOutcomes : RxMsgBody(outcome)
    \/ RxExit

DisconnectSteps ==
    \/ UserDisconnect
    \/ UiScheduledDisconnect
    \/ UiDisconnectFinish

NextRecv ==
    \/ ConnectOk
    \/ RequestSteps
    \/ TimerStartSteps
    \/ ReceiveSteps
    \/ DisconnectSteps

SpecRecv == Init /\ [][NextRecv]_vars

\* ------------------------------------------------------------ disconnect
\* A session with a server that answers, the user disconnecting at any
\* moment, the receive thread ending on the closed socket at its own pace.
NextDisconnect ==
    \/ TickAfterConnect(MaxTime)
    \/ ConnectOk
    \/ RequestSteps
    \/ TimerStartSteps
    \/ UpdateSteps
    \/ RxRecvOSError
    \/ RxExit
    \/ DisconnectSteps

SpecDisconnect == Init /\ [][NextDisconnect]_vars

\* ------------------------------------------------------------- reconnect
\* Two sessions one after the other: the user disconnects while the receive
\* thread decodes a framebuffer update, the join gives up after 2 s, and the
\* user connects again.
\* The user acts once the connect thread has ended, and connects again
\* when the receive thread has ended or is still busy decoding.
NextReconnect ==
    \/ TickAfterConnect(MaxTime)
    \/ (ConnectOk /\ (conn.pc = "idle" => rx.pc \in {"none", "done", "fbu_body"}))
    \/ ConnStartReceiverBeside
    \/ RequestSteps
    \/ TimerStartSteps
    \/ UpdateSteps
    \/ RxRecvOSError
    \/ RxExit
    \/ (conn.pc = "idle" /\ UserDisconnect)
    \/ UiScheduledDisconnect
    \/ UiDisconnectFinish
    \/ OldReceiveSteps

SpecReconnect == Init /\ [][NextReconnect]_vars

\* ------------------------------------------------- the peer closes
\* One session with a server that answers and closes the connection at any
\* moment: between two messages or inside a framebuffer update.
NextClose ==
    \/ Tick(PaceTime)
    \/ (ConnectOk /\ hist'.sessions <= 1)
    \/ RequestSteps
    \/ TimerSteps
    \/ UpdateSteps
    \/ RxRecvClosed
    \/ RxFbuBody("closed")
    \/ RxExit
    \/ UiScheduledDisconnect
    \/ UiDisconnectFinish

\* The Tk main loop keeps running the callbacks that are due and the calls
\* they make; the receive thread keeps running, and recv on a connection the
\* peer has closed returns at once.
CloseFairness ==
    /\ WF_vars(TimerSteps)
    /\ WF_vars(\E t \in ReqThreads : ReqSend(t) \/ ReqLoad(t) \/ ReqStore(t) \/ ReqSetLast(t))
    /\ WF_vars(UiScheduledDisconnect)
    /\ WF_vars(UiDisconnectFinish)
    /\ WF_vars(RxLoopTest)
    /\ WF_vars(~srv.open /\ RxRecvClosed)
    /\ WF_vars(RxExit)

SpecClose == Init /\ [][NextClose]_vars /\ CloseFairness

\* -------------------------------------------- security-type selection
\* utils/vnc_viewer_frame.py, _authenticate: the type the older copy of the
\* frame selects; it has no auth preference.
SelectSecurityTypeUtils(offered) ==
    IF SECURITY_ULTRA \in offered THEN SECURITY_ULTRA
    ELSE IF SECURITY_VNC \in offered THEN SECURITY_VNC
    ELSE IF SECURITY_NONE \in offered THEN SECURITY_NONE
    ELSE NoType

programUnchanged ==
    UNCHANGED <<now, connected, socket, stop_threads, budgetVars, last_force_update,
                settingVars, protocol_errors, afterq, conn, rq, ui, rx, srv, hist>>

InitSelect ==
    /\ ProgramInit
    /\ fin \in [fn : {"select"}, pref : AuthPreferences, offered : SUBSET SecTypes]
    /\ fout = NoOutput
    /\ DecoderInit
    /\ WriterInit
    /\ ReaderInit
    /\ HandlerInit

\* Both copies of _authenticate select among fin.offered.
ApplySelect ==
    /\ fin.fn = "select" /\ fout = NoOutput
    /\ fout' = [fn |-> "select",
                gui |-> SelectSecurityType(fin.pref, fin.offered),
                utils |-> SelectSecurityTypeUtils(fin.offered)]
    /\ UNCHANGED <<fin, decodeVars, writeVars, readVars, handlerVars>>
    /\ programUnchanged

NextSelect == ApplySelect

SpecSelect == InitSelect /\ [][NextSelect]_vars

\* -------------------------------------------------- DES key derivation
MaxPasswordLen == 9

\* Code points of the passwords tried: 'a' (1 byte in UTF-8), U+0416 (2 bytes),
\* U+20AC (3 bytes).
PasswordChars == {97, 1046, 8364}
Passwords == UNION {[1..n -> PasswordChars] : n \in 0..MaxPasswordLen}

\* s[:n]
Slice(s, n) == SubSeq(s, 1, Min(n, Len(s)))

\* s.ljust(n, fill)
Ljust(s, n, fill) ==
    IF Len(s) >= n THEN s ELSE s \o [i \in 1..(n - Len(s)) |-> fill]

\* chr(cp).encode('utf-8'), cp not a surrogate
Utf8(cp) ==
    IF cp < 128 THEN <<cp>>
    ELSE IF cp < 2048 THEN <<192 + (cp \div 64), 128 + (cp % 64)>>
    ELSE IF cp < 65536
    THEN <<224 + (cp \div 4096), 128 + ((cp \div 64) % 64), 128 + (cp % 64)>>
    ELSE <<240 + (cp \div 262144), 128 + ((cp \div 4096) % 64),
           128 + ((cp \div 64) % 64), 128 + (cp % 64)>>

\* str.encode('utf-8')
RECURSIVE EncodeUtf8(_)
EncodeUtf8(s) == IF s = <<>> THEN <<>> ELSE Utf8(Head(s)) \o EncodeUtf8(Tail(s))

\* _encrypt_password, lines 704 and 715: password_bytes.
PasswordBytes(password) ==
    Slice(Ljust(Slice(EncodeUtf8(Ljust(Slice(password, 8), 8, 0)), 8), 8, 0), 8)

\* '{:08b}'.format(byte): the bits, most significant first
Format08b(byte) == [i \in 1..8 |-> (byte \div (2 ^ (8 - i))) % 2]

\* int(bits, 2)
RECURSIVE ParseBinary(_)
ParseBinary(bits) ==
    IF bits = <<>> THEN 0
    ELSE 2 * ParseBinary(SubSeq(bits, 1, Len(bits) - 1)) + bits[Len(bits)]

\* A byte left as it is.
KeepBits(byte) == byte

\* _reverse_bits: int('{:08b}'.format(byte)[::-1], 2)
reverse_bits(byte) ==
    LET bits == Format08b(byte) IN ParseBinary([i \in 1..8 |-> bits[9 - i]])

\* _encrypt_password, line 718: the key handed to DES.new.
DesKey(password) ==
    LET b == PasswordBytes(password) IN [i \in DOMAIN b |-> reverse_bits(b[i])]

InitKey ==
    /\ ProgramInit
    /\ fin \in [fn : {"key"}, password : Passwords]
    /\ fout = NoOutput
    /\ DecoderInit
    /\ WriterInit
    /\ ReaderInit
    /\ HandlerInit

\* _encrypt_password derives the key for fin.password.
ApplyEncryptPassword ==
    /\ fin.fn = "key" /\ fout = NoOutput
    /\ fout' = [fn |-> "key", key |-> DesKey(fin.password)]
    /\ UNCHANGED <<fin, decodeVars, writeVars, readVars, handlerVars>>
    /\ programUnchanged

NextKey == ApplyEncryptPassword

SpecKey == InitKey /\ [][NextKey]_vars

\* ------------------------------------------------- _send_key_event (pure)
KEY_EVENT == 4

\* The bytes a keysym is made of in the inputs: NUL, a letter, 0xFF.
KeysymBytes == {0, 97, 255}

\* The top byte of a keysym: 0 for the classic keysyms, 1 for the Unicode ones.
KeysymTopBytes == {0, 1}

\* X11 keysyms handed to _send_key_event.
Keysyms ==
    {b3 * 16777216 + b2 * 65536 + b1 * 256 + b0 :
        b3 \in KeysymTopBytes, b2 \in KeysymBytes, b1 \in KeysymBytes, b0 \in KeysymBytes}

\* struct.pack("!I", v): four bytes, most significant first.
PackU32(v) ==
    <<(v \div 16777216) % 256, (v \div 65536) % 256, (v \div 256) % 256, v % 256>>

\* struct.pack("!BxBBxxxI", KEY_EVENT, 1 if down else 0, 0, keysym): "!" packs
\* without alignment, every "x" is one zero byte, every "B" one value byte.
PackKeyEvent(down, keysym) ==
    <<KEY_EVENT>> \o <<0>> \o <<IF down THEN 1 ELSE 0>> \o <<0>>
        \o <<0, 0, 0>> \o PackU32(keysym)

InitKeyEvent ==
    /\ ProgramInit
    /\ fin \in [fn : {"key_event"}, down : BOOLEAN, keysym : Keysyms]
    /\ fout = NoOutput
    /\ DecoderInit
    /\ WriterInit
    /\ ReaderInit
    /\ HandlerInit

\* _send_key_event hands the packed message to socket.send.
ApplySendKeyEvent ==
    /\ fin.fn = "key_event" /\ fout = NoOutput
    /\ fout' = [fn |-> "key_event", message |-> PackKeyEvent(fin.down, fin.keysym)]
    /\ UNCHANGED <<fin, decodeVars, writeVars, readVars, handlerVars>>
    /\ programUnchanged

NextKeyEvent == ApplySendKeyEvent

SpecKeyEvent == InitKeyEvent /\ [][NextKeyEvent]_vars

\* ------------------------------------------------------ _send_pointer_event
POINTER_EVENT == 5

\* scale_var values: "Авто" / "50%" / "75%" / "100%"; a scale factor is the
\* fraction <<numerator, denominator>>.
SCALE_AUTO == "Auto"
Scales == {SCALE_AUTO, "50%", "75%", "100%"}
MinFraction(p, q) == IF p[1] * q[2] <= q[1] * p[2] THEN p ELSE q

\* Lines 1605-1622: the scale factor for the scale setting, the canvas size
\* and the screen size.
ScaleFactor(scale_value, canvas_width, canvas_height, screen_width, screen_height) ==
    IF scale_value = SCALE_AUTO
    THEN IF canvas_width > 1 /\ canvas_height > 1
         THEN LET scale_x == <<canvas_width, screen_width>>
                  scale_y == <<canvas_height, screen_height>>
                  fit == MinFraction(MinFraction(scale_x, scale_y), <<1, 1>>)
              IN IF screen_width > 2000 \/ screen_height > 1500
                 THEN MinFraction(fit, <<3, 4>>) ELSE fit
         ELSE <<1, 1>>
    ELSE IF scale_value = "50%" THEN <<1, 2>>
    ELSE IF scale_value = "75%" THEN <<3, 4>>
    ELSE <<1, 1>>

\* int(v / scale_factor): the quotient, truncated towards zero.
Unscale(v, scale_factor) ==
    LET n == v * scale_factor[2]
        d == scale_factor[1]
    IN IF n >= 0 THEN n \div d ELSE -((-n) \div d)

\* A clamp whose upper end is the size itself.
ClampToSize(v, size) == Max(0, Min(v, size))

\* Lines 1628-1629: max(0, min(v, size - 1)).
Clamp(v, size) == Max(0, Min(v, size - 1))

\* struct.pack("!BBHH", POINTER_EVENT, button_mask, real_x, real_y)
PackPointerEvent(button_mask, real_x, real_y) ==
    <<POINTER_EVENT, button_mask,
      real_x \div 256, real_x % 256, real_y \div 256, real_y % 256>>

\* Lines 1604-1637: the message for the UI coordinates (x, y).
PointerMessage(x, y, button_mask, scale_value, canvas_width, canvas_height, screen_width, screen_height) ==
    LET scale_factor == ScaleFactor(scale_value, canvas_width, canvas_height,
                                    screen_width, screen_height)
    IN PackPointerEvent(button_mask,
                        Clamp(Unscale(x, scale_factor), screen_width),
                        Clamp(Unscale(y, scale_factor), screen_height))

\* UI coordinates on, before and beyond the canvas; canvases and screens,
\* small ones and ones beyond the 2000 x 1500 of the automatic scale.
PointerXs == {-7, -1, 0, 1, 2, 3, 2001, 70000}
PointerYs == {-1, 0, 1, 1501}
CanvasSizes == {1, 2, 800}
ScreenWidths == {1, 3, 2001}
ScreenHeights == {1, 2, 1501}

InitPointer ==
    /\ ProgramInit
    /\ fin \in [fn : {"pointer_event"}, x : PointerXs, y : PointerYs,
                button_mask : {0, 1}, scale_value : Scales,
                canvas_width : CanvasSizes, canvas_height : CanvasSizes,
                screen_width : ScreenWidths, screen_height : ScreenHeights]
    /\ fout = NoOutput
    /\ DecoderInit
    /\ WriterInit
    /\ ReaderInit
    /\ HandlerInit

\* _send_pointer_event hands the packed message to socket.send.
ApplySendPointerEvent ==
    /\ fin.fn = "pointer_event" /\ fout = NoOutput
    /\ fout' = [fn |-> "pointer_event",
                message |-> PointerMessage(fin.x, fin.y, fin.button_mask, fin.scale_value,
                                           fin.canvas_width, fin.canvas_height,
                                           fin.screen_width, fin.screen_height)]
    /\ UNCHANGED <<fin, decodeVars, writeVars, readVars, handlerVars>>
    /\ programUnchanged

NextPointer == ApplySendPointerEvent

SpecPointer == InitPointer /\ [][NextPointer]_vars

\* ------------------------------------------------------ the input handlers
MaxInputs == 2
MoveThrottleMs == 50
WheelReleaseMs == 10
InputCanvas == 800
InputXs == {0, 5}
InputYs == {0}
InputKeysyms == {97}

\* The canvas bindings of lines 297-308; <MouseWheel> with a positive and
\* with a negative delta.
PointerHandlers ==
    {"mouse_click", "mouse_release", "mouse_motion", "mouse_move",
     "right_click", "right_release", "wheel_up", "wheel_down"}
KeyHandlers == {"key_press", "key_release"}
\* <B1-Motion> and <Motion> (lines 299-300).
MotionHandlers == {"mouse_motion", "mouse_move"}

\* The button_mask the handler passes to _send_pointer_event (lines 1536-1591).
ButtonMask(h) ==
    IF h \in {"mouse_click", "mouse_motion"} THEN 1
    ELSE IF h = "right_click" THEN 4
    ELSE IF h = "wheel_up" THEN 8
    ELSE IF h = "wheel_down" THEN 16
    ELSE 0

\* The PointerEvent _send_pointer_event writes for (x, y) at the scale
\* setting "Авто" on a canvas larger than the screen.
PointerEventOf(x, y, button_mask) ==
    [type |-> "pointer", button_mask |-> button_mask,
     message |-> PointerMessage(x, y, button_mask, SCALE_AUTO, InputCanvas, InputCanvas,
                                screen.width, screen.height)]

InpUnchanged ==
    UNCHANGED <<now, connected, socket, stop_threads, pending_update_requests,
                last_update_request_time, last_server_response_time, last_force_update,
                settingVars, protocol_errors, conn, rx, srv,
                pureVars, decodeVars, writeVars, readVars, hd>>

\* The handler goes on into _request_framebuffer_update(incremental=True), or
\* returns without it.
InpRequest(called) ==
    IF called
    THEN /\ ui' = [UiNone EXCEPT !.cb = "oneshot"]
         /\ CallRequest("ui", TRUE, update_request_interval)
    ELSE UNCHANGED <<ui, rq, update_request_interval, hist>>

\* The view-only switch.
UserToggleViewOnly ==
    /\ UiIdle
    /\ inp.count = 0
    /\ inp' = [inp EXCEPT !.view_only = ~@]
    /\ UNCHANGED <<ui, rq, update_request_interval, hist, afterq>>
    /\ InpUnchanged

\* _on_mouse_click .. _on_mouse_wheel with _send_pointer_event (lines
\* 1536-1648): the guard of the handler, the throttle of _on_mouse_move, the
\* event written when the socket is open, the request of _send_pointer_event
\* for a button_mask other than 0 and the one of _on_mouse_release, and the
\* release _on_mouse_wheel schedules.
UiPointerHandler(h, x, y) ==
    /\ UiIdle
    /\ inp.count < MaxInputs
    /\ connected /\ ~inp.view_only
    /\ h = "mouse_move" /\ inp.last_move >= 0 => now - inp.last_move >= MoveThrottleMs
    /\ LET mask == ButtonMask(h)
           sent == socket = "open"
           wheel == h \in {"wheel_up", "wheel_down"}
       IN /\ inp' = [inp EXCEPT
                       !.handler = h,
                       !.count = @ + 1,
                       !.events = IF sent THEN Append(@, PointerEventOf(x, y, mask)) ELSE @,
                       !.releases = IF wheel THEN Append(@, <<x, y>>) ELSE @,
                       !.last_move = IF h = "mouse_move" THEN now ELSE @,
                       !.last_motion = IF sent /\ h \in MotionHandlers THEN now ELSE @]
          /\ afterq' = IF wheel
                       THEN AfterAdd(afterq, "wheel_release", now + WheelReleaseMs, FALSE)
                       ELSE afterq
          /\ InpRequest((sent /\ mask # 0) \/ h = "mouse_release")
    /\ InpUnchanged

\* after(10, lambda: self._send_pointer_event(event.x, event.y, button_mask=0))
\* of _on_mouse_wheel runs.
UiWheelRelease ==
    /\ UiIdle /\ DueIs("wheel_release")
    /\ afterq' = RemoveAt(afterq, NextDue)
    /\ LET xy == Head(inp.releases) IN
       inp' = [inp EXCEPT
                 !.releases = Tail(@),
                 !.events = IF connected /\ socket = "open"
                            THEN Append(@, PointerEventOf(xy[1], xy[2], 0)) ELSE @]
    /\ UNCHANGED <<ui, rq, update_request_interval, hist>>
    /\ InpUnchanged

\* _on_key_press and _on_key_release with _send_key_event (lines 1651-1741):
\* the event is written when the socket is open; a press goes on into the
\* request.
UiKeyHandler(h, keysym) ==
    /\ UiIdle
    /\ inp.count < MaxInputs
    /\ connected /\ ~inp.view_only
    /\ LET down == h = "key_press"
           sent == socket = "open"
       IN /\ inp' = [inp EXCEPT
                       !.handler = h,
                       !.count = @ + 1,
                       !.events = IF sent
                                  THEN Append(@, [type |-> "key", button_mask |-> 0,
                                                  message |-> PackKeyEvent(down, keysym)])
                                  ELSE @]
          /\ InpRequest(sent /\ down)
    /\ UNCHANGED afterq
    /\ InpUnchanged

InputSteps ==
    \/ UserToggleViewOnly
    \/ \E h \in PointerHandlers, x \in InputXs, y \in InputYs : UiPointerHandler(h, x, y)
    \/ \E h \in KeyHandlers, keysym \in InputKeysyms : UiKeyHandler(h, keysym)
    \/ UiWheelRelease

\* ------------------------------------------------------ the pixel decoder
\* _handle_framebuffer_update and the rectangle handlers, run on their own
\* against a server whose reads all succeed (RxFbuBody has the failing reads).
\* An image is its rows from the top, a row its pixels from the left, a pixel
\* <<r, g, b>>.  Coordinates are 0-based as on the wire.
ENCODING_RAW == 0
ENCODING_COPYRECT == 1
ENCODING_RRE == 2
ENCODING_HEXTILE == 5
\* The encodings _handle_framebuffer_update has a handler for (lines 1059-1064).
HandledEncodings == {ENCODING_RAW, ENCODING_COPYRECT, ENCODING_RRE}
RectLimit == 50000000

\* 100 MiB
OversizeLimit == 100 * 1024 * 1024

\* The 5-6-5 layout a 16-bit server announces in ServerInit.
red_max == 31
green_max == 63
blue_max == 31
red_shift == 11
green_shift == 5
blue_shift == 0

Black == <<0, 0, 0>>

\* Image.new('RGB', (w, h))
NewImage(w, h) == [r \in 1..h |-> [c \in 1..w |-> Black]]

ImageHeight(im) == Len(im)
ImageWidth(im) == IF Len(im) = 0 THEN 0 ELSE Len(im[1])

\* Image.paste(im, (x, y)) writes only the part of im that lies on the image.
VisibleRows(fb, im, y) == Max(0, Min(ImageHeight(im), ImageHeight(fb) - y))
VisibleCols(fb, im, x) == Max(0, Min(ImageWidth(im), ImageWidth(fb) - x))

\* Row k of im written into fb by the paste at (x, y).
PasteRow(fb, im, x, y, k) ==
    [r \in 1..ImageHeight(fb) |->
        [c \in 1..ImageWidth(fb) |->
            IF r = y + k /\ c - x \in 1..ImageWidth(im) THEN im[k][c - x] ELSE fb[r][c]]]

\* A crop that stays a view of fb while the rectangle of the header read last
\* is written from the left: a pixel to the right of the source start by d or
\* more shows what was written d places before it.
CropAliased(fb, x, y, w, h) ==
    LET d == dec.rect.x - x IN
    [r \in 1..h |->
        [c \in 1..w |->
            IF y + r \in 1..Len(fb) /\ x + c \in 1..Len(fb[1])
            THEN IF d > 0 /\ dec.rect.y = y
                 THEN fb[y + r][x + ((c - 1) % d) + 1]
                 ELSE fb[y + r][x + c]
            ELSE <<0, 0, 0>>]]

\* A crop that copies nothing: a new black image of the size of the box.
CropBlank(fb, x, y, w, h) == NewImage(w, h)

\* Image.crop((x, y, x + w, y + h)): a new image, black where the box leaves fb.
Crop(fb, x, y, w, h) ==
    [r \in 1..h |->
        [c \in 1..w |->
            IF y + r \in 1..ImageHeight(fb) /\ x + c \in 1..ImageWidth(fb)
            THEN fb[y + r][x + c] ELSE Black]]

\* _bit_count
RECURSIVE bit_count(_)
bit_count(n) == IF n = 0 THEN 0 ELSE 1 + bit_count(n \div 2)

\* (pixel >> shift) & ((1 << _bit_count(max)) - 1), scaled to 8 bits.
Channel(pixel, shift, max) ==
    (((pixel \div (2 ^ shift)) % (2 ^ bit_count(max))) * 255) \div max

\* A decoder that takes the bytes of a 32-bit pixel as r, g, b, _.
DecodePixelRGB(bytes, bits_per_pixel) ==
    IF bits_per_pixel = 32
    THEN <<bytes[1], bytes[2], bytes[3]>>
    ELSE <<0, 0, 0>>

\* One pixel of a Raw payload: b, g, r, _ at 32 bits; struct.unpack("!H") and
\* the channel arithmetic at 16 bits.
DecodePixel(bytes, bits_per_pixel) ==
    IF bits_per_pixel = 32
    THEN <<bytes[3], bytes[2], bytes[1]>>
    ELSE LET pixel == bytes[1] * 256 + bytes[2] IN
         <<Channel(pixel, red_shift, red_max),
           Channel(pixel, green_shift, green_max),
           Channel(pixel, blue_shift, blue_max)>>

\* rect_image.putdata(pixels): the pixels row by row.
RectImage(payload, w, h, bits_per_pixel) ==
    [r \in 1..h |-> [c \in 1..w |-> DecodePixel(payload[(r - 1) * w + c], bits_per_pixel)]]

\* w * h * bytes_per_pixel
DataSize(w, h) == w * h * (screen.bits_per_pixel \div 8)

DecUnchanged ==
    UNCHANGED <<now, connected, socket, stop_threads, budgetVars, last_force_update,
                settingVars, afterq, conn, rq, ui, rx, srv, hist, pureVars, writeVars, readVars,
                handlerVars>>

\* _initialize, lines 765-779: ServerInit gives the geometry and the pixel
\* format, the framebuffer starts black; then the receive loop runs.
DecInitialize(sc) ==
    /\ dec.pc = "none"
    /\ screen' = sc
    /\ framebuffer' = NewImage(sc.width, sc.height)
    /\ dec' = [DecIdle EXCEPT !.pc = "loop"]
    /\ dhist' = [DHistInit EXCEPT !.reference = NewImage(sc.width, sc.height)]
    /\ UNCHANGED <<photo, protocol_errors>>
    /\ DecUnchanged

\* Lines 899-907 and 1041-1044: the message type, the padding byte and the
\* rectangle count n are read.
DecBeginUpdate(n) ==
    /\ dec.pc = "loop"
    /\ dec.updates < MaxUpdates
    /\ dec' = [dec EXCEPT !.pc = "rects", !.left = n, !.consumed = 0]
    /\ UNCHANGED <<screen, framebuffer, photo, protocol_errors, dhist>>
    /\ DecUnchanged

InBounds(x, y, w, h) == x + w <= screen.width /\ y + h <= screen.height

\* The reference decoder: a pixel of a Raw payload read under the server's
\* pixel format, the 16-bit word in the byte order the format announces.
RefPixel(bytes) ==
    IF screen.bits_per_pixel = 32
    THEN <<bytes[3], bytes[2], bytes[1]>>
    ELSE LET word == IF screen.big_endian THEN bytes[1] * 256 + bytes[2]
                                          ELSE bytes[2] * 256 + bytes[1] IN
         <<(((word \div (2 ^ red_shift)) % (red_max + 1)) * 255) \div red_max,
           (((word \div (2 ^ green_shift)) % (green_max + 1)) * 255) \div green_max,
           (((word \div (2 ^ blue_shift)) % (blue_max + 1)) * 255) \div blue_max>>

\* The reference decoder: buffer ref with pixel source(r, c) written at every
\* place of the rectangle (x, y, w, h).
RefWrite(ref, x, y, w, h, source(_, _)) ==
    [r \in 1..Len(ref) |->
        [c \in 1..Len(ref[r]) |->
            IF r - y \in 1..h /\ c - x \in 1..w THEN source(r - y, c - x) ELSE ref[r][c]]]

RefRaw(ref, x, y, w, h, payload) ==
    LET source(r, c) == RefPixel(payload[(r - 1) * w + c]) IN
    RefWrite(ref, x, y, w, h, source)

RefCopy(ref, x, y, w, h, sx, sy) ==
    LET source(r, c) == ref[sy + r][sx + c] IN
    RefWrite(ref, x, y, w, h, source)

\* dec when the rectangle is finished: the loop of line 1050 goes to the next one.
FinishedRect(d) ==
    [d EXCEPT !.pc = "rects", !.left = dec.left - 1, !.rect = NoRect,
              !.image = NoImage, !.row = 0]

\* dec when the paste of im at (x, y) begins; one without a visible part is
\* over at once.
PasteStart(d, im, x, y) ==
    IF VisibleRows(framebuffer, im, y) = 0 \/ VisibleCols(framebuffer, im, x) = 0
    THEN FinishedRect(d)
    ELSE [d EXCEPT !.pc = "paste", !.image = im, !.row = 0]

\* Two rectangles of size w * h, at (x, y) and at (sx, sy), share a pixel.
Overlap(x, y, w, h, sx, sy) ==
    /\ x < sx + w /\ sx < x + w
    /\ y < sy + h /\ sy < y + h

\* Lines 1052-1056: the 8 bytes of the position and size, the 4 of the encoding.
DecRectHeader(x, y, w, h, e) ==
    /\ dec.pc = "rects" /\ dec.left > 0
    /\ dec' = [dec EXCEPT !.pc = "payload",
                          !.rect = [NoRect EXCEPT !.x = x, !.y = y, !.w = w, !.h = h,
                                                  !.encoding = e],
                          !.consumed = 12]
    /\ dhist' = [dhist EXCEPT !.pre = framebuffer]
    /\ UNCHANGED <<screen, framebuffer, photo, protocol_errors>>
    /\ DecUnchanged

\* Lines 1091-1112: the Raw payload is read and turned into rect_image.
DecRawPayload(payload) ==
    /\ dec.pc = "payload" /\ dec.rect.encoding = ENCODING_RAW
    /\ DataSize(dec.rect.w, dec.rect.h) <= RectLimit
    /\ LET r == dec.rect
           d == [dec EXCEPT !.consumed = @ + DataSize(r.w, r.h)]
           im == RectImage(payload, r.w, r.h, screen.bits_per_pixel)
           ok == InBounds(r.x, r.y, r.w, r.h)
       IN /\ dec' = PasteStart(d, im, r.x, r.y)
          /\ dhist' = [dhist EXCEPT
                          !.pre = IF PasteStart(d, im, r.x, r.y).pc = "paste" THEN @ ELSE NoImage,
                          !.payload = IF PasteStart(d, im, r.x, r.y).pc = "paste"
                                      THEN payload ELSE <<>>,
                          !.wellformed = @ /\ ok,
                          !.reference = IF dhist.wellformed /\ ok
                                        THEN RefRaw(@, r.x, r.y, r.w, r.h, payload) ELSE NoImage]
    /\ UNCHANGED <<screen, framebuffer, photo, protocol_errors>>
    /\ DecUnchanged

\* Lines 1205-1209: the source position is read, the source is cropped.
DecCopySource(sx, sy) ==
    /\ dec.pc = "payload" /\ dec.rect.encoding = ENCODING_COPYRECT
    /\ LET r == dec.rect
           d == [dec EXCEPT !.consumed = @ + 4, !.rect.src_x = sx, !.rect.src_y = sy]
           im == Crop(framebuffer, sx, sy, r.w, r.h)
           ok == InBounds(r.x, r.y, r.w, r.h) /\ InBounds(sx, sy, r.w, r.h)
       IN /\ dec' = PasteStart(d, im, r.x, r.y)
          /\ dhist' = [dhist EXCEPT
                          !.pre = IF PasteStart(d, im, r.x, r.y).pc = "paste" THEN @ ELSE NoImage,
                          !.wellformed = @ /\ ok,
                          !.reference = IF dhist.wellformed /\ ok
                                        THEN RefCopy(@, r.x, r.y, r.w, r.h, sx, sy) ELSE NoImage]
    /\ UNCHANGED <<screen, framebuffer, photo, protocol_errors>>
    /\ DecUnchanged

\* A subrectangle of an RRE rectangle as it is on the wire: the pixel, then
\* x, y, w, h.  RreColours decodes the pixels with decode.
RreColours(subs, decode(_)) == [i \in 1..Len(subs) |-> [subs[i] EXCEPT !.color = decode(@)]]

\* Lines 1229-1236: the subrectangles are drawn onto im in order, each pixel
\* of one that lies on im (0 <= px < w and 0 <= py < h).
RECURSIVE RreDraw(_, _)
RreDraw(im, subs) ==
    IF subs = <<>> THEN im
    ELSE LET s == Head(subs)
             drawn == [r \in 1..Len(im) |->
                          [c \in 1..Len(im[r]) |->
                              IF /\ r - 1 \in s.y..(s.y + s.h - 1)
                                 /\ c - 1 \in s.x..(s.x + s.w - 1)
                              THEN s.color ELSE im[r][c]]]
         IN RreDraw(drawn, Tail(subs))

\* Image.new('RGB', (w, h), bg_color) with the subrectangles drawn.
RreImage(w, h, bg, subs) == RreDraw([r \in 1..h |-> [c \in 1..w |-> bg]], subs)

\* _handle_rre_rectangle, lines 1214-1235: the subrectangle count (4 bytes),
\* the background pixel, and for every subrectangle its pixel and 8 bytes.
DecRrePayload(bg, subs) ==
    /\ dec.pc = "payload" /\ dec.rect.encoding = ENCODING_RRE
    /\ LET r == dec.rect
           bpp == screen.bits_per_pixel \div 8
           d == [dec EXCEPT !.consumed = @ + 4 + bpp + Len(subs) * (bpp + 8)]
           decode(p) == DecodePixel(p, screen.bits_per_pixel)
           im == RreImage(r.w, r.h, decode(bg), RreColours(subs, decode))
           ref == RreImage(r.w, r.h, RefPixel(bg), RreColours(subs, RefPixel))
           source(i, j) == ref[i][j]
           ok == InBounds(r.x, r.y, r.w, r.h)
       IN /\ dec' = PasteStart(d, im, r.x, r.y)
          /\ dhist' = [dhist EXCEPT
                          !.pre = IF PasteStart(d, im, r.x, r.y).pc = "paste" THEN @ ELSE NoImage,
                          !.wellformed = @ /\ ok,
                          !.reference = IF dhist.wellformed /\ ok
                                        THEN RefWrite(@, r.x, r.y, r.w, r.h, source)
                                        ELSE NoImage]
    /\ UNCHANGED <<screen, framebuffer, photo, protocol_errors>>
    /\ DecUnchanged

\* Lines 1115, 1210 and 1237: the paste writes the next row of rect_image;
\* after the last visible row the rectangle is finished.
DecPasteRow ==
    /\ dec.pc = "paste"
    /\ LET r == dec.rect
           fb == PasteRow(framebuffer, dec.image, r.x, r.y, dec.row + 1)
           last == dec.row + 1 = VisibleRows(framebuffer, dec.image, r.y)
       IN /\ framebuffer' = fb
          /\ dec' = IF last THEN FinishedRect(dec) ELSE [dec EXCEPT !.row = @ + 1]
          /\ dhist' = IF last
                      THEN [dhist EXCEPT
                              !.pre = NoImage,
                              !.payload = <<>>,
                              !.raw_pasted =
                                  @ \/ /\ r.encoding = ENCODING_RAW
                                       /\ InBounds(r.x, r.y, r.w, r.h)
                                       /\ r.w * r.h < screen.width * screen.height,
                              !.painted = TRUE,
                              !.overlap_copied =
                                  @ \/ /\ r.encoding = ENCODING_COPYRECT
                                       /\ InBounds(r.x, r.y, r.w, r.h)
                                       /\ InBounds(r.src_x, r.src_y, r.w, r.h)
                                       /\ <<r.x, r.y>> # <<r.src_x, r.src_y>>
                                       /\ Overlap(r.x, r.y, r.w, r.h, r.src_x, r.src_y)]
                      ELSE dhist
    /\ UNCHANGED <<screen, photo, protocol_errors>>
    /\ DecUnchanged

\* Lines 1065-1071: an encoding without a handler; its Raw-sized payload is
\* read and dropped.
DecSkipPayload ==
    /\ dec.pc = "payload"
    /\ dec.rect.encoding \notin HandledEncodings
    /\ DataSize(dec.rect.w, dec.rect.h) <= RectLimit
    /\ dec' = [FinishedRect(dec) EXCEPT
                  !.consumed = @ + DataSize(dec.rect.w, dec.rect.h)]
    /\ dhist' = [dhist EXCEPT !.pre = NoImage]
    /\ UNCHANGED <<screen, framebuffer, photo, protocol_errors>>
    /\ DecUnchanged

\* Lines 988-991 and 1095-1097: the payload size is beyond the limit, a
\* ValueError is raised before anything is read; lines 911-921: the receive
\* loop counts it, and below the error limit goes on with the next byte of
\* the stream as a message type.
DecOversize ==
    /\ dec.pc = "payload"
    /\ dec.rect.encoding \notin {ENCODING_COPYRECT, ENCODING_RRE}
    /\ DataSize(dec.rect.w, dec.rect.h) > RectLimit
    /\ protocol_errors' = protocol_errors + 1
    /\ dec' = [dec EXCEPT !.left = 0, !.rect = NoRect, !.consumed = 0,
                          !.pc = IF protocol_errors + 1 >= max_protocol_errors
                                 THEN "failed" ELSE "loop"]
    /\ dhist' = [dhist EXCEPT !.pre = NoImage, !.wellformed = FALSE, !.reference = NoImage]
    /\ UNCHANGED <<screen, framebuffer, photo>>
    /\ DecUnchanged

\* Lines 1074-1078 and 910: the message is handled to its end.
DecEndUpdate ==
    /\ dec.pc = "rects" /\ dec.left = 0
    /\ dec' = [dec EXCEPT !.pc = "loop", !.updates = @ + 1, !.queued = @ + 1,
                          !.consumed = 0]
    /\ protocol_errors' = 0
    /\ UNCHANGED <<screen, framebuffer, photo, dhist>>
    /\ DecUnchanged

\* _process_events takes an 'update_display' event and _update_canvas_optimized
\* hands the framebuffer, at scale 100%, to ImageTk.PhotoImage.
UiUpdateCanvas ==
    /\ dec.queued > 0
    /\ framebuffer # NoImage
    /\ photo' = framebuffer
    /\ dec' = [dec EXCEPT !.queued = @ - 1]
    /\ UNCHANGED <<screen, framebuffer, dhist, protocol_errors>>
    /\ DecUnchanged

\* What the server sends in this environment.
WirePixels ==
    IF screen.bits_per_pixel = 32
    THEN {<<0, 0, 0, 0>>, <<255, 0, 0, 0>>, <<0, 0, 255, 255>>}
    ELSE {<<0, 0>>, <<0, 31>>, <<248, 0>>}

\* Raw payloads of n pixels: two pixel values in turn.
RawPayloads(n) ==
    {[i \in 1..n |-> IF i % 2 = 1 THEN p ELSE q] : p \in WirePixels, q \in WirePixels}

\* The payloads that can follow the header read last.
PayloadsOnWire ==
    IF dec.pc = "payload" /\ DataSize(dec.rect.w, dec.rect.h) <= RectLimit
    THEN RawPayloads(dec.rect.w * dec.rect.h) ELSE {}

RectXs == 0..(screen.width - 1)
RectYs == 0..(screen.height - 1)
RectWs == 1..screen.width
RectHs == 1..(screen.height + 1)

\* A rectangle far beyond any screen, as a malformed header can announce.
BigWidth == 6000
BigHeight == 5000

WideScreens ==
    {sc \in [width : {3}, height : {1}, bits_per_pixel : {32, 16}, big_endian : BOOLEAN] :
        sc.bits_per_pixel = 32 => ~sc.big_endian}
SquareScreens ==
    [width : {2}, height : {2}, bits_per_pixel : {32}, big_endian : {FALSE}]

Encodings == {ENCODING_RAW, ENCODING_COPYRECT, ENCODING_HEXTILE}

DecodeSteps ==
    \/ \E n \in 0..MaxRects : DecBeginUpdate(n)
    \/ \E x \in RectXs, y \in RectYs, w \in RectWs, h \in RectHs, e \in Encodings :
          DecRectHeader(x, y, w, h, e)
    \/ \E e \in {ENCODING_RAW, ENCODING_HEXTILE} : DecRectHeader(0, 0, BigWidth, BigHeight, e)
    \/ \E payload \in PayloadsOnWire : DecRawPayload(payload)
    \/ \E sx \in RectXs, sy \in RectYs : DecCopySource(sx, sy)
    \/ DecPasteRow
    \/ DecSkipPayload
    \/ DecOversize
    \/ DecEndUpdate

\* The decoder alone, on a wide screen of either pixel size and byte order.
NextDecode ==
    \/ \E sc \in WideScreens : DecInitialize(sc)
    \/ DecodeSteps

SpecDecode == Init /\ [][NextDecode]_vars

\* Raw and CopyRect rectangles on a 32-bit screen, one row or one column.
StripScreens ==
    [width : {3}, height : {1}, bits_per_pixel : {32}, big_endian : {FALSE}]
    \cup [width : {1}, height : {3}, bits_per_pixel : {32}, big_endian : {FALSE}]

NextCopy ==
    \/ \E sc \in StripScreens : DecInitialize(sc)
    \/ \E n \in 0..MaxRects : DecBeginUpdate(n)
    \/ \E x \in RectXs, y \in RectYs, w \in RectWs, h \in RectHs :
          \E e \in {ENCODING_RAW, ENCODING_COPYRECT} : DecRectHeader(x, y, w, h, e)
    \/ \E payload \in PayloadsOnWire : DecRawPayload(payload)
    \/ \E sx \in RectXs, sy \in RectYs : DecCopySource(sx, sy)
    \/ DecPasteRow
    \/ DecEndUpdate

SpecCopy == Init /\ [][NextCopy]_vars

\* Rectangles of every encoding, empty ones (w = 0 or h = 0) among them, on a
\* 32-bit strip; an RRE rectangle has at most MaxSubrects subrectangles.
MaxSubrects == 1
Subrects ==
    [color : WirePixels, x : {0}, y : {0}, w : {1}, h : {1}]
SubrectLists == UNION {[1..n -> Subrects] : n \in 0..MaxSubrects}
NextEmpty ==
    \/ \E sc \in StripScreens : DecInitialize(sc)
    \/ \E n \in 0..MaxRects : DecBeginUpdate(n)
    \/ \E x \in RectXs, y \in RectYs, w \in 0..1, h \in 0..1 :
          \E e \in HandledEncodings \cup {ENCODING_HEXTILE} : DecRectHeader(x, y, w, h, e)
    \/ \E payload \in PayloadsOnWire : DecRawPayload(payload)
    \/ \E sx \in RectXs, sy \in RectYs : DecCopySource(sx, sy)
    \/ \E bg \in WirePixels, subs \in SubrectLists : DecRrePayload(bg, subs)
    \/ DecPasteRow
    \/ DecSkipPayload
    \/ DecEndUpdate

SpecEmpty == Init /\ [][NextEmpty]_vars

\* The decoder and the UI thread showing the framebuffer: Raw rectangles of
\* the full width, one or two rows high, on a 32-bit square screen.
NextPresent ==
    \/ \E sc \in SquareScreens : DecInitialize(sc)
    \/ \E n \in 0..MaxRects : DecBeginUpdate(n)
    \/ \E y \in RectYs, h \in 1..screen.height :
          DecRectHeader(0, y, screen.width, h, ENCODING_RAW)
    \/ \E payload \in PayloadsOnWire : DecRawPayload(payload)
    \/ DecPasteRow
    \/ DecEndUpdate
    \/ UiUpdateCanvas

SpecPresent == Init /\ [][NextPresent]_vars

\* --------------------------------------------------- writes to the socket
\* The session is up (connected, socket open): the connect thread is at its
\* first _request_framebuffer_update, line 507, and the UI thread handles
\* pointer and key events and update timers.
MaxWrites == 2

\* struct.calcsize of the formats "!BBHHHH", "!BBHH" and "!BxBBxxxI".
MessageLength(kind) ==
    IF kind = "request" THEN 1 + 1 + 2 + 2 + 2 + 2
    ELSE IF kind = "pointer" THEN 1 + 1 + 2 + 2
    ELSE Len(PackKeyEvent(TRUE, 0))

MessageKinds(t) == IF t = "conn" THEN {"request"} ELSE {"request", "pointer", "key"}

WrUnchanged ==
    UNCHANGED <<now, connected, socket, stop_threads, budgetVars, last_force_update,
                settingVars, protocol_errors, afterq, conn, rq, ui, rx, srv, hist,
                pureVars, decodeVars, readVars, handlerVars>>

\* struct.pack: thread t has its message ready (lines 852-858, 1635-1640,
\* 1724-1730).  The connect thread writes one request, the UI thread up to
\* MaxWrites messages.
WrPack(t, kind) ==
    /\ wr[t].pc = "idle"
    /\ kind \in MessageKinds(t)
    /\ wr[t].sent < (IF t = "conn" THEN 1 ELSE MaxWrites)
    /\ wr' = [wr EXCEPT ![t].pc = "packed", ![t].kind = kind]
    /\ UNCHANGED out
    /\ WrUnchanged

\* self.socket.send(message) (lines 860, 1641, 1731): the kernel takes the
\* first k bytes, 1 <= k <= len(message), and send returns k; the code drops
\* the return value and goes on.
WrSend(t, k) ==
    /\ wr[t].pc = "packed"
    /\ k \in 1..MessageLength(wr[t].kind)
    /\ out' = Append(out, [by |-> t, kind |-> wr[t].kind,
                           length |-> MessageLength(wr[t].kind), written |-> k])
    /\ wr' = [wr EXCEPT ![t] = [WrIdle EXCEPT !.sent = wr[t].sent + 1]]
    /\ WrUnchanged

NextWrite ==
    \/ \E t \in Writers, kind \in {"request", "pointer", "key"} : WrPack(t, kind)
    \/ \E t \in Writers, k \in 1..MessageLength("key") : WrSend(t, k)

SpecWrite == Init /\ [][NextWrite]_vars

\* ----------------------------------------------------------- _recv_exact
MaxStream == 3
MaxRead == 3
BigRead == 60000000
StreamBytes == {0, 1}
Streams == UNION {[1..n -> StreamBytes] : n \in 0..MaxStream}
ReadSizes == (0..MaxRead) \cup {BigRead}

RdUnchanged ==
    UNCHANGED <<now, connected, socket, stop_threads, budgetVars, last_force_update,
                settingVars, protocol_errors, afterq, conn, rq, ui, rx, srv, hist,
                pureVars, decodeVars, writeVars, handlerVars>>

\* Line 1002: chunk_size = min(65536, remaining) if size > 1000000 else 4096.
ChunkSize(size, remaining) == IF size > 1000000 THEN Min(65536, remaining) ELSE 4096

\* The server has its next bytes ready to send.
ServerQueues(bytes) ==
    /\ srv.open
    /\ stream.pending = <<>>
    /\ Len(stream.received) + Len(bytes) <= MaxStream
    /\ bytes # <<>>
    /\ stream' = [stream EXCEPT !.pending = bytes]
    /\ UNCHANGED rd
    /\ RdUnchanged

\* Lines 986-1002: the call with argument size, up to the loop.
RecvExactCall(size) ==
    /\ rd.pc = "idle"
    /\ rd' = IF size <= 0
                THEN [RdIdle EXCEPT !.pc = "returned", !.size = size]
             ELSE IF size > RectLimit
                THEN [RdIdle EXCEPT !.pc = "raised", !.size = size, !.error = "ValueError"]
             ELSE IF socket # "open"
                THEN [RdIdle EXCEPT !.pc = "raised", !.size = size,
                                    !.error = "ConnectionError"]
             ELSE [RdIdle EXCEPT !.pc = "loop", !.size = size, !.remaining = size,
                                 !.chunk_size = ChunkSize(size, size),
                                 !.start = Len(stream.received)]
    /\ UNCHANGED stream
    /\ RdUnchanged

\* Lines 1004-1012: socket.recv(min(remaining, chunk_size)) returns k bytes,
\* 1 <= k <= what was asked for and what has arrived; `while remaining > 0`
\* ends the loop and line 1024 returns data.
RecvChunk(k) ==
    /\ rd.pc = "loop"
    /\ k \in 1..Min(Min(rd.remaining, rd.chunk_size), Len(stream.pending))
    /\ rd' = [rd EXCEPT !.data = @ \o SubSeq(stream.pending, 1, k),
                        !.remaining = @ - k,
                        !.pc = IF rd.remaining - k > 0 THEN "loop" ELSE "returned"]
    /\ stream' = [pending |-> SubSeq(stream.pending, k + 1, Len(stream.pending)),
                  received |-> stream.received \o SubSeq(stream.pending, 1, k)]
    /\ RdUnchanged

\* Lines 1007-1008 and 1018-1022: recv returns b'' (the server closed), the
\* ConnectionError raised for it is an OSError without winerror 10038 and is
\* raised again as a ConnectionError.
RecvClosed ==
    /\ rd.pc = "loop"
    /\ stream.pending = <<>>
    /\ rd' = [rd EXCEPT !.pc = "raised", !.error = "ConnectionError"]
    /\ UNCHANGED stream
    /\ RdUnchanged

\* Lines 1014-1017: recv raises socket.timeout, which is raised again.
RecvTimeout ==
    /\ rd.pc = "loop"
    /\ stream.pending = <<>>
    /\ rd' = [rd EXCEPT !.pc = "raised", !.error = "timeout"]
    /\ UNCHANGED stream
    /\ RdUnchanged

\* Lines 1018-1022: recv raises another OSError (winerror 10038 or not).
RecvOSError ==
    /\ rd.pc = "loop"
    /\ rd' = [rd EXCEPT !.pc = "raised", !.error = "ConnectionError"]
    /\ UNCHANGED stream
    /\ RdUnchanged

\* The caller has the result or the exception; the next call can start.
RecvExactDone ==
    /\ rd.pc \in {"returned", "raised"}
    /\ rd' = RdIdle
    /\ UNCHANGED stream
    /\ RdUnchanged

NextRead ==
    \/ UserConnect
    \/ \E ok \in BOOLEAN : ConnOpenSocket(ok)
    \/ \E bytes \in Streams : ServerQueues(bytes)
    \/ \E size \in ReadSizes : RecvExactCall(size)
    \/ \E k \in 1..MaxRead : RecvChunk(k)
    \/ RecvClosed
    \/ RecvTimeout
    \/ RecvOSError
    \/ RecvExactDone

SpecRead == Init /\ [][NextRead]_vars

\* ------------------------------------------------ _handle_colormap_entries
MaxColors == 2

HdUnchanged ==
    UNCHANGED <<now, connected, socket, stop_threads, budgetVars, last_force_update,
                settingVars, protocol_errors, afterq, conn, rq, ui, rx, srv, hist,
                pureVars, decodeVars, writeVars, readVars, inp>>

\* Lines 899-905 and 922-923: the receive loop has read the type byte 1 and
\* calls _handle_colormap_entries.
CmapBegin ==
    /\ dec.pc = "loop" /\ hd.pc = "idle"
    /\ hd' = [HdIdle EXCEPT !.pc = "pad"]
    /\ HdUnchanged

\* Line 1268: self._recv_exact(1), the padding.
CmapPad ==
    /\ hd.pc = "pad"
    /\ hd' = [hd EXCEPT !.pc = "first", !.consumed = @ + 1]
    /\ HdUnchanged

\* Line 1271: first_color, 2 bytes; it is only logged.
CmapFirst ==
    /\ hd.pc = "first"
    /\ hd' = [hd EXCEPT !.pc = "count", !.consumed = @ + 2]
    /\ HdUnchanged

\* Line 1272: num_colors, 2 bytes.
CmapCount(n) ==
    /\ hd.pc = "count"
    /\ hd' = [hd EXCEPT !.pc = "colors", !.num_colors = n, !.consumed = @ + 2]
    /\ HdUnchanged

\* A read of 3 bytes per colour.
ColorsSizeShort(num_colors) == num_colors * 3

\* num_colors * 6, the size of the read of line 1275.
ColorsSize(num_colors) == num_colors * 6

\* Line 1275: self._recv_exact(num_colors * 6); the data are dropped.
CmapColors ==
    /\ hd.pc = "colors"
    /\ hd' = [hd EXCEPT !.pc = "done", !.consumed = @ + ColorsSize(hd.num_colors)]
    /\ HdUnchanged

\* The handler returns; the receive loop reads the next type byte.
CmapReturn ==
    /\ hd.pc = "done"
    /\ hd' = HdIdle
    /\ HdUnchanged

\* SetColorMapEntries messages between FramebufferUpdate messages of Raw
\* rectangles, on a 32-bit strip.
NextColorMap ==
    \/ \E sc \in StripScreens : DecInitialize(sc)
    \/ \E n \in 0..MaxRects : hd.pc = "idle" /\ DecBeginUpdate(n)
    \/ \E x \in RectXs, y \in RectYs, w \in RectWs, h \in RectHs :
          DecRectHeader(x, y, w, h, ENCODING_RAW)
    \/ \E payload \in PayloadsOnWire : DecRawPayload(payload)
    \/ DecPasteRow
    \/ DecEndUpdate
    \/ CmapBegin
    \/ CmapPad
    \/ CmapFirst
    \/ \E n \in 0..MaxColors : CmapCount(n)
    \/ CmapColors
    \/ CmapReturn

SpecColorMap == Init /\ [][NextColorMap]_vars

\* ------------------------------------------------- a session with input
\* A session that connects, on a 2 x 2 screen, and the user at the canvas.
NextInput ==
    \/ Tick(PaceTime)
    \/ ConnectOk
    \/ (conn.pc = "init" /\ \E sc \in SquareScreens : DecInitialize(sc))
    \/ RequestSteps
    \/ TimerSteps
    \/ RxLoopTest
    \/ (dec.pc # "none" /\ InputSteps)

SpecInput == Init /\ [][NextInput]_vars

\* ================================================================ claims
\* C1: in every reachable state of a session, under every interleaving of the
\* FramebufferUpdateRequest sends with the FramebufferUpdate receipts,
\* 0 <= pending_update_requests <= max_pending_requests.
C1_PendingWithinMax ==
    connected => /\ 0 <= pending_update_requests
                 /\ pending_update_requests <= max_pending_requests

\* C2: any two FramebufferUpdateRequests put on the wire in one session are at
\* least update_request_interval apart, whichever trigger produced them.
C2_RequestsSpaced == ~hist.wire_close

\* C3: once the last FramebufferUpdate is older than the stall threshold (3 s)
\* pending_update_requests is forced back to 0, so no request is suppressed
\* any more because pending_update_requests has reached max_pending_requests.
C3_StallResetsPending == ~hist.suppressed_stalled

\* C4: when no FramebufferUpdate has arrived for the liveness timeout (2 s) the
\* full request of that silence is put on the wire in every state of the
\* budget: it is never suppressed by the pending limit or by the throttle.
C4_HealthProbeSent == ~hist.probe_missed

\* C5: connected is set only after, in this order and within the same connect
\* attempt, the version exchange, the security negotiation, the authentication
\* with a success (zero) result, and the initialization have each succeeded.
C5_ConnectOrder ==
    connected => /\ hist.steps = <<"version", "security", "auth", "init">>
                 /\ hist.auth_result = "zero"

\* C6: an error raised inside the receive thread terminates the session: the
\* thread reads no further server message after it.
C6_ErrorTerminates == ~hist.rx_after_error

\* C7: after a message whose type byte is not 0, 1, 2 or 3 the session is
\* terminated: no later byte is read as a message type.
C7_UnknownTypeTerminates == ~hist.rx_after_unknown

\* What automatic mode is to select among the offered types: 2 if offered,
\* otherwise 1 if offered, otherwise nothing.
AutoChoice(offered) ==
    IF 2 \in offered THEN 2 ELSE IF 1 \in offered THEN 1 ELSE NoType

\* C8: in automatic mode, for every list of offered types, _authenticate (both
\* copies) selects 2 if it is offered, otherwise 1 if it is offered, otherwise
\* sends no selection; it never selects 17 or any other type.
C8_AutoSelection ==
    fout.fn = "select" /\ fin.pref = AUTH_AUTO =>
        /\ fout.gui = AutoChoice(fin.offered)
        /\ fout.utils = AutoChoice(fin.offered)

\* C9: ClientInit is sent only after a 4-byte security result equal to zero
\* has been read, for every selected type and every auth preference.
C9_InitAfterZeroResult == hist.client_init => hist.auth_result = "zero"

\* Bit i (0: least significant) of a byte.
Bit(byte, i) == (byte \div (2 ^ i)) % 2

\* The byte with the bit order reversed.
MirrorByte(byte) ==
    Bit(byte, 0) * 128 + Bit(byte, 1) * 64 + Bit(byte, 2) * 32 + Bit(byte, 3) * 16
    + Bit(byte, 4) * 8 + Bit(byte, 5) * 4 + Bit(byte, 6) * 2 + Bit(byte, 7)

\* Byte i of the UTF-8 encoding of the whole password, NUL beyond its end.
Utf8ByteOrNul(password, i) ==
    LET e == EncodeUtf8(password) IN IF i <= Len(e) THEN e[i] ELSE 0

\* C10: the DES key is exactly 8 bytes: the first 8 UTF-8 bytes of the
\* password, NUL-padded on the right, each with its bit order reversed; the
\* empty password gives the all-zero key.
C10_DesKey ==
    fout.fn = "key" =>
        /\ Len(fout.key) = 8
        /\ \A i \in 1..8 : fout.key[i] = MirrorByte(Utf8ByteOrNul(fin.password, i))
        /\ (fin.password = <<>> => fout.key = [i \in 1..8 |-> 0])

\* C10 witness: a key was derived from a password whose UTF-8 encoding is
\* longer than 8 bytes and whose 8th byte is inside a multi-byte character.
C10_Witness ==
    /\ fout.fn = "key"
    /\ Len(EncodeUtf8(fin.password)) > 8
    /\ EncodeUtf8(fin.password)[8] >= 128
    /\ EncodeUtf8(fin.password)[9] >= 128 /\ EncodeUtf8(fin.password)[9] < 192
    /\ Len(fin.password) < 8

\* C11: every KeyEvent written is exactly 8 bytes: the type 0x04, the down
\* flag in the second byte, two padding bytes, then the keysym as a
\* big-endian unsigned 32-bit word.
C11_KeyEventLayout ==
    fout.fn = "key_event" =>
        /\ Len(fout.message) = 8
        /\ fout.message[1] = 4
        /\ fout.message[2] = (IF fin.down THEN 1 ELSE 0)
        /\ fout.message[3] = 0 /\ fout.message[4] = 0
        /\ SubSeq(fout.message, 5, 8) = PackU32(fin.keysym)

\* C12: every rectangle applied to the framebuffer satisfies x + w <= width
\* and y + h <= height; a header that violates it writes nothing.
C12_AppliedWithinScreen ==
    [][dec.pc = "paste" /\ framebuffer' # framebuffer
         => InBounds(dec.rect.x, dec.rect.y, dec.rect.w, dec.rect.h)]_vars

\* C13: after any number of complete FramebufferUpdates of well-formed Raw
\* and CopyRect rectangles, the framebuffer equals the buffer of the
\* reference decoder fed the same rectangles in wire order from black.
C13_MatchesReference ==
    (dec.pc = "loop" /\ dec.updates >= 1 /\ dhist.wellformed)
        => framebuffer = dhist.reference

\* C14: a CopyRect whose source and destination overlap leaves in the
\* destination the pixels the source had before the operation.
C14_CopyRectPreservesSource ==
    [][(/\ dec.pc = "paste" /\ dec'.pc = "rects"
        /\ dec.rect.encoding = ENCODING_COPYRECT
        /\ InBounds(dec.rect.x, dec.rect.y, dec.rect.w, dec.rect.h)
        /\ InBounds(dec.rect.src_x, dec.rect.src_y, dec.rect.w, dec.rect.h))
         => \A r \in 1..dec.rect.h, c \in 1..dec.rect.w :
                framebuffer'[dec.rect.y + r][dec.rect.x + c]
                    = dhist.pre[dec.rect.src_y + r][dec.rect.src_x + c]]_vars

\* C14 witness: on the three-pixel row, a CopyRect onto a part of its own
\* source has been pasted and the row reads [A, A, B] with A # B.
C14_Witness ==
    /\ dhist.overlap_copied
    /\ dec.pc = "rects"
    /\ screen.width = 3
    /\ framebuffer[1][1] = framebuffer[1][2]
    /\ framebuffer[1][2] # framebuffer[1][3]

\* The framebuffer once the paste in progress has written all its rows.
PasteAll(fb, im, x, y) ==
    [r \in 1..Len(fb) |->
        [c \in 1..Len(fb[r]) |->
            IF r - y \in 1..Len(im) /\ c - x \in 1..Len(im[1])
            THEN im[r - y][c - x] ELSE fb[r][c]]]

\* C16: every image the UI thread samples equals the framebuffer after some
\* prefix of the rectangles: while the first rectangle is pasted, the buffer
\* before it or the buffer after it, never one with a part of its rows.
C16_SampleIsPrefix ==
    [][(photo' # photo /\ dec.pc = "paste" /\ ~dhist.painted)
         => photo' \in {dhist.pre,
                        PasteAll(framebuffer, dec.image, dec.rect.x, dec.rect.y)}]_vars

\* C20: a rectangle of an unknown encoding has exactly w * h * bytes_per_pixel
\* payload bytes consumed after its 12-byte header and leaves the framebuffer
\* as it was; one whose size is beyond the oversize limit fails the session.
C20_UnknownEncodingSkipped ==
    [][(dec.pc = "payload" /\ dec.rect.encoding \notin HandledEncodings)
         => IF DataSize(dec.rect.w, dec.rect.h) > OversizeLimit
            THEN dec'.pc = "failed"
            ELSE /\ dec'.pc = "rects"
                 /\ dec'.consumed = 12 + DataSize(dec.rect.w, dec.rect.h)
                 /\ framebuffer' = framebuffer]_vars

\* C15: all writes to the server are serialized by one write lock: the bytes
\* of two messages never interleave and every message is written completely,
\* so what is on the wire is a sequence of whole messages.
C15_WritesSerialized ==
    \A i \in 1..Len(out) : out[i].written = out[i].length

\* C17: when a disconnect of a streaming session (the connect thread has
\* finished) returns, the socket is closed, the receive thread has
\* terminated and no update timer is armed.
C17_DisconnectComplete ==
    [][(ui.cb = "disconnect" /\ ui'.cb # "disconnect" /\ conn.pc = "idle")
         => /\ socket' = "none" /\ ~connected'
            /\ rx'.pc \in {"none", "done"}
            /\ \A i \in DOMAIN afterq' : afterq'[i].cb \notin {"force", "cont"}]_vars

\* C18: when a connect attempt whose TCP connection was established fails
\* (version exchange, security negotiation, authentication or initialization)
\* and the connect thread ends, connected is False, no receive thread and no
\* update timer has been started, and the socket of the attempt is not open.
C18_FailedAttemptCleansUp ==
    [][(conn.pc = "failed" /\ conn'.pc = "idle" /\ srv.open)
         => /\ ~connected'
            /\ rx'.pc \in {"none", "done"}
            /\ \A i \in DOMAIN afterq' : afterq'[i].cb \notin {"force", "cont", "start_timers"}
            /\ socket' # "open"]_vars

\* C19: _recv_exact(n), for 1 <= n up to the size limit of a read (100 MiB),
\* either returns exactly n bytes, the next n bytes of the stream in order,
\* however the socket splits them into chunks, or raises ConnectionError or
\* socket.timeout.
C19_ReadExact ==
    (rd.pc \in {"returned", "raised"} /\ rd.size >= 1 /\ rd.size <= OversizeLimit)
        => IF rd.pc = "returned"
           THEN /\ Len(rd.data) = rd.size
                /\ rd.data = SubSeq(stream.received, rd.start + 1, rd.start + rd.size)
           ELSE rd.error \in {"ConnectionError", "timeout"}

\* C21: a rectangle whose header has w = 0 or h = 0 is finished with no
\* payload byte consumed after the 12 bytes of its header and with the
\* framebuffer as it was, whatever its encoding.
C21_EmptyRectangle ==
    [][(dec.pc = "payload" /\ (dec.rect.w = 0 \/ dec.rect.h = 0))
         => /\ dec'.pc = "rects"
            /\ dec'.consumed = 12
            /\ framebuffer' = framebuffer]_vars

\* C22: while a SetColorMapEntries message is handled the framebuffer, the
\* pixel format and the request budget stay as they are, and when the handler
\* is done it has read exactly 5 + 6 * num_colors bytes after the type byte
\* (5 bytes when num_colors = 0).
C22_ColourMapIgnored ==
    [][(hd.pc # "idle" \/ hd'.pc # "idle")
         => /\ UNCHANGED <<framebuffer, screen, budgetVars>>
            /\ hd'.pc = "done" => hd'.consumed = 5 + 6 * hd'.num_colors]_vars

\* A message with no colour has been handled after a rectangle was painted.
C22_Witness ==
    hd.pc = "done" /\ hd.num_colors = 0 /\ hd.consumed = 5 /\ dhist.painted

\* C26: the PointerEvent written for any UI coordinates, scale setting and
\* canvas size, on a screen of width >= 1 and height >= 1, has 0 <= x < width
\* and 0 <= y < height.
C26_PointerWithinScreen ==
    fout.fn = "pointer_event"
        => LET m == fout.message
               x == m[3] * 256 + m[4]
               y == m[5] * 256 + m[6]
           IN /\ Len(m) = 6 /\ m[1] = POINTER_EVENT
              /\ \A i \in 1..6 : m[i] \in 0..255
              /\ 0 <= x /\ x < fin.screen_width
              /\ 0 <= y /\ y < fin.screen_height

\* A coordinate beyond the scaled screen and a negative one have been clamped.
C26_Witness ==
    /\ fout.fn = "pointer_event"
    /\ fin.x = 70000 /\ fin.y = -1 /\ fin.scale_value = "50%"
    /\ fout.message[3] * 256 + fout.message[4] = fin.screen_width - 1
    /\ fout.message[5] * 256 + fout.message[6] = 0

\* A handler of an input event runs in this step.
HandlerRuns == inp'.count = inp.count + 1

\* The handler that runs in this step calls _request_framebuffer_update.
RequestCalled == rq["ui"].pc = "idle" /\ rq'["ui"].pc # "idle"

\* A FramebufferUpdateRequest is written to the socket in this step.
RequestWritten == \E t \in ReqThreads : rq[t].pc = "send" /\ rq'[t].pc = "load"

\* C23: a pointer press, a pointer release (of either button) and a key press
\* each call for one incremental FramebufferUpdateRequest; a pointer motion,
\* with a button held or not, and a key release call for none.
C23_InputRequests ==
    [][HandlerRuns =>
         LET h == inp'.handler IN
         /\ h \in {"mouse_click", "right_click", "mouse_release", "right_release",
                    "key_press"}
               => RequestCalled /\ (rq'["ui"].pc = "send" => rq'["ui"].inc)
         /\ h \in {"mouse_motion", "mouse_move", "key_release"} => ~RequestCalled]_vars

\* C27: between the press a wheel event writes and its release no other
\* client message is written, and the release is written when its callback
\* runs.
C27_WheelPressRelease ==
    [][inp.releases # <<>> =>
         /\ ~RequestWritten
         /\ inp'.events # inp.events
               => /\ inp'.releases = Tail(inp.releases)
                  /\ inp'.events = Append(inp.events,
                        PointerEventOf(Head(inp.releases)[1], Head(inp.releases)[2], 0))
         /\ inp'.releases = Tail(inp.releases) => inp'.events # inp.events]_vars

\* C24: the first FramebufferUpdateRequest written in a session is a full
\* one (incremental = 0): no incremental request of an input handler or of a
\* timer is written before the one the connect thread issues after _initialize.
C24_FirstRequestFull ==
    [][\A t \in ReqThreads :
          (rq[t].pc = "send" /\ rq'[t].pc = "load" /\ ~hist.wire_any) => ~rq[t].inc]_vars

\* C25: when a session starts streaming (connected becomes True), at the first
\* connect and at every reconnect, pending_update_requests is 0,
\* last_update_request_time holds no time of an earlier session, and
\* update_request_interval is the value of the selected quality profile.
C25_BudgetResetOnStreaming ==
    [][(~connected /\ connected')
         => /\ pending_update_requests' = 0
            /\ last_update_request_time' = 0
            /\ update_request_interval' = AdjustedRequestInterval(quality_var')]_vars

\* C28: when the server offers no security type, the reason string is read
\* and the connect attempt fails with that reason as its error; no security
\* type is selected and sent, and ClientInit is not sent.
C28_ZeroTypesRejected ==
    hist.reason # "none" =>
        /\ hist.error = hist.reason
        /\ conn.pc \in {"failed", "idle"}
        /\ ~hist.client_init
        /\ hist.steps = <<"version">>

Word16(bytes) ==
    IF screen.big_endian THEN bytes[1] * 256 + bytes[2] ELSE bytes[2] * 256 + bytes[1]

\* (word >> shift) & max for a max of the form 2^k - 1, scaled to 8 bits.
Scaled8(word, shift, max) == (((word \div (2 ^ shift)) % (max + 1)) * 255) \div max

\* C30: at 16 bits per pixel every pixel of a pasted Raw rectangle within the
\* screen is its 16-bit word, read in the byte order of the big_endian flag
\* (little-endian when it is false), with each channel (word >> shift) &
\* channel_max scaled as component * 255 / channel_max.
C30_Raw16 ==
    [][(/\ dec.pc = "paste" /\ dec'.pc = "rects"
        /\ dec.rect.encoding = ENCODING_RAW
        /\ screen.bits_per_pixel = 16
        /\ InBounds(dec.rect.x, dec.rect.y, dec.rect.w, dec.rect.h))
         => \A j \in 0..(dec.rect.h - 1), i \in 0..(dec.rect.w - 1) :
                LET word == Word16(dhist.payload[j * dec.rect.w + i + 1]) IN
                framebuffer'[dec.rect.y + j + 1][dec.rect.x + i + 1]
                    = <<Scaled8(word, red_shift, red_max),
                        Scaled8(word, green_shift, green_max),
                        Scaled8(word, blue_shift, blue_max)>>]_vars

\* C31: a CopyRect rectangle within the screen whose source position is its
\* destination position leaves every pixel of the framebuffer unchanged, at
\* every row the paste writes.
C31_CopyRectIdentity ==
    [][(/\ dec.pc = "paste"
        /\ dec.rect.encoding = ENCODING_COPYRECT
        /\ dec.rect.src_x = dec.rect.x /\ dec.rect.src_y = dec.rect.y
        /\ InBounds(dec.rect.x, dec.rect.y, dec.rect.w, dec.rect.h))
         => framebuffer' = framebuffer /\ framebuffer' = dhist.pre]_vars

\* C31 witness: on the three-pixel column a CopyRect of two or more rows onto
\* itself is being pasted, a row of it is written already, and the column
\* holds pixels that are not black.
C31_Witness ==
    /\ dec.pc = "paste"
    /\ dec.rect.encoding = ENCODING_COPYRECT
    /\ dec.rect.src_x = dec.rect.x /\ dec.rect.src_y = dec.rect.y
    /\ InBounds(dec.rect.x, dec.rect.y, dec.rect.w, dec.rect.h)
    /\ dec.rect.h >= 2 /\ dec.row >= 1
    /\ framebuffer = dhist.pre
    /\ \E r \in 1..dec.rect.h : framebuffer[dec.rect.y + r][1] # Black

\* C32: any two PointerEvents caused by pointer motion, plain or with a
\* button held, are at least 20 ms apart.
C32_MotionRateLimited ==
    [][(/\ inp'.count = inp.count + 1
        /\ inp'.handler \in MotionHandlers
        /\ Len(inp'.events) = Len(inp.events) + 1
        /\ inp.last_motion >= 0)
         => now - inp.last_motion >= 20]_vars

\* The gates of the request function are closed: less than the request
\* interval since the last request sent, or the pending limit reached.
Suppressed ==
    /\ connected /\ socket # "none"
    /\ \/ (now - last_update_request_time) * 1000 < update_request_interval
       \/ pending_update_requests >= max_pending_requests

\* C33: a request trigger that is suppressed writes nothing, leaves
\* pending_update_requests, last_update_request_time and
\* update_request_interval as they were, and is dropped: the function
\* returns, and nothing is queued to send a request later.  (A quality
\* change assigns the interval of the new profile before it triggers; its
\* trigger is judged by _on_quality_change, not here.)
C33_SuppressedDropped ==
    [][\A t \in ReqThreads :
          (rq[t].pc = "idle" /\ rq'[t].pc # "idle" /\ Suppressed
               /\ quality_var' = quality_var)
            => /\ rq'[t].pc = "ret"
               /\ UNCHANGED <<pending_update_requests, last_update_request_time,
                              update_request_interval, srv>>
               /\ hist'.wire_any = hist.wire_any /\ hist'.wire_last = hist.wire_last
               /\ \A i \in DOMAIN afterq' : \E k \in DOMAIN afterq : afterq'[i] = afterq[k]]_vars

\* C33 witness: a request of the UI thread has just been suppressed at the
\* pending limit while the server is silent, and the function has returned.
C33_Witness ==
    /\ hist.suppressed_stalled
    /\ rq["ui"].pc = "ret"
    /\ Suppressed
    /\ pending_update_requests = max_pending_requests

\* connected is False, the socket is closed and released, no update timer is
\* pending and no request is counted as pending.
Disconnected ==
    /\ ~connected
    /\ socket = "none"
    /\ \A i \in DOMAIN afterq : afterq[i].cb \notin {"force", "cont"}
    /\ pending_update_requests = 0

\* The receive thread of a streaming session has found the connection closed
\* by the peer.
PeerClosed ==
    /\ connected /\ socket = "open"
    /\ ~srv.open
    /\ rx.pc \in {"loop", "recv", "exit"}

\* C34: if the peer closes the connection during streaming, the session
\* eventually is disconnected, as long as the UI loop runs its callbacks.
C34_PeerCloseDisconnects == PeerClosed ~> Disconnected

\* C34 witness: the peer closed a session in which requests were written,
\* the receive thread has ended and the scheduled disconnect has run.
C34_Witness ==
    /\ Disconnected
    /\ ~srv.open /\ rx.pc = "done"
    /\ UiIdle /\ hist.sessions = 1 /\ hist.wire_any
    /\ \A i \in DOMAIN afterq : afterq[i].cb # "disconnect"

\* C35: at most one receive worker reads from the socket: the worker of an
\* earlier session, alive beside the worker of the session in progress,
\* never is in recv on the socket.
C35_OneReceiver == rx.old # "recv"

\* C36: a session that has reached streaming leaves it only by
\* disconnect_from_vnc (the user's, or one scheduled) or by the end of its
\* own receive worker, never by the end of the worker of an earlier session.
C36_TeardownOwnSession ==
    [][(connected /\ ~connected')
         => \/ ui'.cb = "disconnect"
            \/ (rx.pc = "exit" /\ rx'.pc = "done" /\ rx.session = hist.sessions)]_vars

\* C37: a connect attempt owns the transport: while a connect thread is
\* between opening its socket and connected = True, no second connect
\* thread assigns the shared socket or reads and writes on it.
C37_OneAttempt ==
    [][(conn.pc \in Connecting \ {"socket"} /\ socket = "open")
         => ~(conn.other \in {"socket", "handshake"} /\ conn'.other # conn.other)]_vars

\* C38: a byte is read as a server message type only at a message boundary:
\* after a read has timed out inside a FramebufferUpdate, SetColourMapEntries
\* or ServerCutText message, no byte is read as a message type.
C38_StreamAligned == ~hist.rx_misread

\* No thread is inside an update of pending_update_requests: between the send
\* of a request and the store of the increment, or between the receipt of a
\* FramebufferUpdate and the store of the decrement.
BudgetQuiescent ==
    /\ \A t \in ReqThreads : rq[t].pc \notin {"load", "store"}
    /\ rx.pc \notin {"fbu_stamp", "fbu_load", "fbu_store"}

\* C39: no update of pending_update_requests is lost: with k requests sent
\* and m <= k framebuffer updates received in the session (srv.owed = k - m),
\* and no thread inside an update, pending_update_requests = k - m.
C39_NoLostUpdate ==
    (connected /\ BudgetQuiescent /\ srv.owed < max_pending_requests + 2)
        => pending_update_requests = srv.owed

\* The callbacks of kind cb that are pending in the `after` queue.
PendingCallbacks(cb) == {i \in DOMAIN afterq : afterq[i].cb = cb}

\* C40: at any time at most one forced-refresh timer callback and at most
\* one continuous-update timer callback are pending.
C40_OneTimerChain ==
    /\ Cardinality(PendingCallbacks("force")) <= 1
    /\ Cardinality(PendingCallbacks("cont")) <= 1

============================================================================
